---------------------------- MODULE Spec2Model ----------------------------
(***************************************************************************)
(* A model of the trace-splicing toolkit of wrongpath-bench (src/tools).   *)
(*                                                                         *)
(* One behaviour of the model is one invocation of one tool on a small     *)
(* file system.  A trace file is a sequence of fixed-size records plus a   *)
(* number of trailing bytes that do not make up a whole record.  Every     *)
(* tool is a single main(); its blocks (argument checks, opening the       *)
(* input, range validation, dry-run exit, loading the source range,        *)
(* creating the output, one iteration of the streaming loop, the epilogue) *)
(* are the actions.  pc names the block that runs next; when main returns  *)
(* pc keeps the block it returned from, halted becomes TRUE and exit_code  *)
(* holds the process's exit status.                                        *)
(*                                                                         *)
(* int64_t is scaled down to IntBits bits (two's complement) so that the   *)
(* overflowing arguments are among the inputs TLC enumerates.  Signed      *)
(* overflow is undefined behaviour: the model lets the run either continue *)
(* with the wrapped value (plain gcc/clang builds) or abort (a trapping    *)
(* build, -ftrapv / -fsanitize=signed-integer-overflow).                   *)
(*                                                                         *)
(* The ratios a_pos and b_ratio are doubles in the code.  The model draws  *)
(* them from the dyadic fractions n / 2^RatioBits.  In len * ratio the     *)
(* int64_t len is converted to double and the product is a double: both    *)
(* are rounded to MantBits significant bits (nearest, ties to even), and   *)
(* the cast to int64_t truncates.  strtod also parses "nan": NaN is one   *)
(* more value of the two ratios, every comparison with it is false, and    *)
(* its cast to int64_t is undefined behaviour (INT64_MIN on x86-64, 0 on   *)
(* AArch64).                                                               *)
(***************************************************************************)
EXTENDS Integers, Sequences, FiniteSets, TLC

\* ------------------------------------------------------------------ bounds
MaxRecords == 8
IntBits == 6
RatioBits == 2
\* the significand of a double (53 bits for the 63 value bits of an int64_t)
MantBits == 2

\* ------------------------------------------------------- program constants
NUM_INSTR_DESTINATIONS == 2
NUM_INSTR_SOURCES == 4
\* sizeof(struct input_instr): 8 + 1 + 1 + 2 + 4 + 2*8 + 4*8
RecordSize == 64

\* ------------------------------------------------------------ int64_t
INT64_MAX == 2^(IntBits - 1) - 1
INT64_MIN == -(2^(IntBits - 1))
InInt64(x) == INT64_MIN <= x /\ x <= INT64_MAX
\* the value a two's-complement build leaves in an int64_t for the exact result x
Wrap(x) == ((x - INT64_MIN) % 2^IntBits) + INT64_MIN

\* ------------------------------------------------------------- records
\* One trace record.  is_branch, branch_taken and the register arrays are
\* opaque bytes no tool reads; they are left out.
input_instr(ip, src, dst) ==
    [ip |-> ip, source_memory |-> src, destination_memory |-> dst]

\* the i-th record of the input traces the splicers are run on: pairwise distinct
TraceRecord(i) ==
    input_instr(i, <<i, 0, i + 1, 0>>, <<0, i>>)

Trace(n) == [i \in 1..n |-> TraceRecord(i)]

\* --------------------------------------------------------- file system
NoPath == "NULL"
InPath == "in.bin"
OtherPath == "out.bin"
Paths == {InPath, OtherPath}

AbsentFile == [exists |-> FALSE, recs |-> <<>>, tail |-> 0]
TraceFile(recs, tail) == [exists |-> TRUE, recs |-> recs, tail |-> tail]
\* what a pre-existing output path holds before the run
OldOutput == TraceFile(<<input_instr(0, <<0, 0, 0, 0>>, <<0, 0>>)>>, 0)

\* ftell() after fseek(SEEK_END)
filesize(f) == Len(f.recs) * RecordSize + f.tail

VARIABLES
    tool,            \* which program runs
    args,            \* its parsed command line
    fs,              \* path -> file
    fs0,             \* the file system before the run (never changes)
    pc,              \* the block of main that runs next / returned
    halted,          \* main has returned (or the process was killed)
    exit_code,       \* exit status, meaningful when halted
    fp_in,           \* NoPath, or the path the input stream is open on
    stale,           \* fp_in serves reads from its stdio buffer filled before
                     \* the file was truncated under it
    fp_out,          \* NoPath, or the path the output stream is open on
    total_records,
    buf,             \* src_records / b_records / b_buf
    idx,
    in_idx,
    out_idx,
    inserted,
    src_idx,
    next_iter,
    next_insert_at,
    next_b_begin,
    insertions_done,
    hit_count,
    hits,            \* lines printed on stdout by the scanner / inspector
    warnings,        \* the advisories ("Warning: ...") printed on stderr
    current_pos      \* the periodic splicer's position in fp_in, in records

vars == <<tool, args, fs, fs0, pc, halted, exit_code, fp_in, stale, fp_out,
          total_records, buf, idx, in_idx, out_idx, inserted, src_idx,
          next_iter, next_insert_at, next_b_begin, insertions_done, hit_count,
          hits, warnings, current_pos>>

files == <<fs, fp_in, stale, fp_out>>
side_vars == <<warnings, current_pos>>
insert_vars == <<in_idx, out_idx, inserted>>
iter_vars == <<next_iter, next_insert_at, next_b_begin, insertions_done>>
scan_vars == <<hit_count, hits>>
loop_vars == <<buf, idx, src_idx, insert_vars, iter_vars, scan_vars>>

in_path == args.in_path
out_path == args.out_path
\* mutant: --dry-run is parsed but has no effect
dry_run_ignored == FALSE

dry_run == args.dry_run

\* the records a read of fp_in sees
InData == IF stale THEN fs0[in_path].recs ELSE fs[in_path].recs

\* fseek(fp_in, begin * sizeof) ; fread(dst, sizeof, n, fp_in): the records read
\* (fewer than n at end of file)
fread_range(begin, n) ==
    LET data == InData
        last == IF begin + n <= Len(data) THEN begin + n ELSE Len(data)
    IN  IF begin >= Len(data) THEN <<>> ELSE SubSeq(data, begin + 1, last)

\* return <code> from main: pc keeps the block main returned from
Return(code) ==
    /\ halted' = TRUE
    /\ exit_code' = code
    /\ pc' = pc

\* fall through to block <label>
Goto(label) ==
    /\ pc' = label
    /\ UNCHANGED <<halted, exit_code>>

\* fopen(in_path, "rb") ... filesize % sizeof(struct input_instr) != 0
OpenInputFails == ~fs[in_path].exists \/ filesize(fs[in_path]) % RecordSize # 0

\* fopen(out_path, "wb"): creates or truncates; a stream open on the same file
\* either keeps serving its buffer or sees the truncated file
fopen_wb ==
    /\ fs' = [fs EXCEPT ![out_path] = TraceFile(<<>>, 0)]
    /\ fp_out' = out_path
    /\ IF out_path = fp_in THEN stale' \in BOOLEAN ELSE stale' = stale
    /\ UNCHANGED fp_in

\* fwrite(recs, sizeof, Len(recs), fp_out)
fwrite(recs) == [fs EXCEPT ![fp_out].recs = @ \o recs]


\* =================================================== trace_insert_range.c
src_begin == args.src_begin
src_end == args.src_end
insert_at == args.insert_at
insert_len == src_end - src_begin

\* lines 97-119: required arguments and the source range
insert_args_rejected ==
    \/ in_path = NoPath
    \/ (out_path = NoPath /\ ~dry_run)
    \/ src_begin < 0 \/ src_end < 0 \/ insert_at < 0
    \/ src_begin >= src_end

insert_check_args ==
    /\ tool = "insert" /\ ~halted /\ pc = "args"
    /\ IF insert_args_rejected THEN Return(1) ELSE Goto("open_in")
    /\ UNCHANGED <<tool, args, fs0, side_vars, files, total_records, loop_vars>>

\* lines 123-148: open the input, take its size
insert_open_input ==
    /\ tool = "insert" /\ ~halted /\ pc = "open_in"
    /\ IF OpenInputFails
       THEN Return(1) /\ UNCHANGED <<fp_in, total_records>>
       ELSE /\ fp_in' = in_path
            /\ total_records' = filesize(fs[in_path]) \div RecordSize
            /\ Goto("validate")
    /\ UNCHANGED <<tool, args, fs0, side_vars, fs, stale, fp_out, loop_vars>>

\* mutant: insert_at is not compared with the record count
insert_ranges_rejected_src_only == src_end > total_records

\* lines 162-174: the ranges against the record count
insert_ranges_rejected ==
    \/ src_end > total_records
    \/ insert_at > total_records

\* line 177: insert_at lies inside the source range
insert_overlap == src_begin <= insert_at /\ insert_at < src_end

\* lines 162-182: the bounds, then the advisory, which only prints
insert_validate_ranges ==
    /\ tool = "insert" /\ ~halted /\ pc = "validate"
    /\ IF insert_ranges_rejected
       THEN Return(1) /\ UNCHANGED warnings
       ELSE /\ warnings' = IF insert_overlap THEN {"overlap"} ELSE {}
            /\ Goto("dry_run")
    /\ UNCHANGED <<tool, args, fs0, current_pos, files, total_records,
                   loop_vars>>

\* lines 184-197
insert_dry_run ==
    /\ tool = "insert" /\ ~halted /\ pc = "dry_run"
    /\ IF dry_run THEN Return(0) ELSE Goto("load")
    /\ UNCHANGED <<tool, args, fs0, side_vars, files, total_records, loop_vars>>

\* lines 199-226: the source range is read into memory before the output exists
insert_load_source ==
    /\ tool = "insert" /\ ~halted /\ pc = "load"
    /\ LET got == fread_range(src_begin, insert_len)
       IN  IF Len(got) # insert_len
           THEN Return(1) /\ UNCHANGED buf
           ELSE buf' = got /\ Goto("open_out")
    /\ UNCHANGED <<tool, args, fs0, side_vars, files, total_records, idx,
                   src_idx, insert_vars, iter_vars, scan_vars>>

\* lines 228-244
insert_open_output ==
    /\ tool = "insert" /\ ~halted /\ pc = "open_out"
    /\ fopen_wb
    /\ in_idx' = 0 /\ out_idx' = 0 /\ inserted' = FALSE
    /\ Goto("stream")
    /\ UNCHANGED <<tool, args, fs0, side_vars, total_records, buf, idx, src_idx,
                   iter_vars, scan_vars>>

\* mutant: the block goes after the record at insert_at instead of before it
insert_at_reached_late == ~inserted /\ in_idx = insert_at + 1

\* line 248: the insertion point is the record just read
insert_at_reached == ~inserted /\ in_idx = insert_at

\* lines 246-273: one iteration of the streaming loop (fread returned 1)
insert_stream_record ==
    /\ tool = "insert" /\ ~halted /\ pc = "stream"
    /\ in_idx < Len(InData)
    /\ LET rec == InData[in_idx + 1]
       IN  IF insert_at_reached
           THEN /\ fs' = fwrite(buf \o <<rec>>)
                /\ out_idx' = out_idx + insert_len + 1
                /\ inserted' = TRUE
           ELSE /\ fs' = fwrite(<<rec>>)
                /\ out_idx' = out_idx + 1
                /\ UNCHANGED inserted
    /\ in_idx' = in_idx + 1
    /\ UNCHANGED <<tool, args, fs0, side_vars, pc, halted, exit_code, fp_in,
                   stale, fp_out, total_records, buf, idx, src_idx, iter_vars,
                   scan_vars>>

\* mutant: there is no write site after the loop
insert_at_end_missing == FALSE

\* line 276: insertion at the very end
insert_at_end == ~inserted /\ insert_at = total_records

\* lines 275-299: fread returned 0; append at end of file if still pending
insert_after_loop ==
    /\ IF insert_at_end
       THEN /\ fs' = fwrite(buf)
            /\ out_idx' = out_idx + insert_len
            /\ inserted' = TRUE
       ELSE UNCHANGED <<fs, out_idx, inserted>>
    /\ fp_in' = NoPath /\ fp_out' = NoPath
    /\ halted' = TRUE /\ exit_code' = 0 /\ pc' = "finish"
    /\ UNCHANGED <<tool, args, fs0, side_vars, stale, total_records, buf, idx,
                   in_idx, src_idx, iter_vars, scan_vars>>

\* fread returned 0 at the end of the file
insert_finish ==
    /\ tool = "insert" /\ ~halted /\ pc = "stream"
    /\ in_idx >= Len(InData)
    /\ insert_after_loop

\* fread returned 0 before the end of the file (a failing read): the loop
\* ends in the same way, neither ferror nor the record count is looked at
insert_read_error ==
    /\ tool = "insert" /\ ~halted /\ pc = "stream"
    /\ in_idx < Len(InData)
    /\ insert_after_loop

\* line 149: output_records = total_records + insert_len
insert_overflow ==
    pc = "validate" /\ ~InInt64(total_records + insert_len)

\* ================================================ trace_overwrite_range.c
dst_begin == args.dst_begin
copy_len == src_end - src_begin
\* dst_begin + copy_len as the build computes it (lines 158, 168, 176, 235)
dst_end == Wrap(dst_begin + copy_len)

\* lines 97-119
overwrite_args_rejected ==
    \/ in_path = NoPath
    \/ (out_path = NoPath /\ ~dry_run)
    \/ src_begin < 0 \/ src_end < 0 \/ dst_begin < 0
    \/ src_begin >= src_end

overwrite_check_args ==
    /\ tool = "overwrite" /\ ~halted /\ pc = "args"
    /\ IF overwrite_args_rejected THEN Return(1) ELSE Goto("open_in")
    /\ UNCHANGED <<tool, args, fs0, side_vars, files, total_records, loop_vars>>

\* lines 123-148
overwrite_open_input ==
    /\ tool = "overwrite" /\ ~halted /\ pc = "open_in"
    /\ IF OpenInputFails
       THEN Return(1) /\ UNCHANGED <<fp_in, total_records>>
       ELSE /\ fp_in' = in_path
            /\ total_records' = filesize(fs[in_path]) \div RecordSize
            /\ Goto("validate")
    /\ UNCHANGED <<tool, args, fs0, side_vars, fs, stale, fp_out, loop_vars>>

\* mutant: the advisory is an error
overwrite_ranges_rejected_on_overlap ==
    \/ src_end > total_records
    \/ dst_end > total_records
    \/ (src_begin < dst_end /\ src_end > dst_begin)

\* lines 161-173
overwrite_ranges_rejected ==
    \/ src_end > total_records
    \/ dst_end > total_records

\* lines 176-177: source and destination ranges intersect
overwrite_overlap == src_begin < dst_end /\ src_end > dst_begin

\* lines 160-181: the bounds, then the advisory, which only prints
overwrite_validate_ranges ==
    /\ tool = "overwrite" /\ ~halted /\ pc = "validate"
    /\ IF overwrite_ranges_rejected
       THEN Return(1) /\ UNCHANGED warnings
       ELSE /\ warnings' = IF overwrite_overlap THEN {"overlap"} ELSE {}
            /\ Goto("dry_run")
    /\ UNCHANGED <<tool, args, fs0, current_pos, files, total_records,
                   loop_vars>>

\* line 158: dst_begin + copy_len, first evaluated for the banner
overwrite_overflow ==
    pc = "validate" /\ ~InInt64(dst_begin + copy_len)

\* lines 183-187
overwrite_dry_run ==
    /\ tool = "overwrite" /\ ~halted /\ pc = "dry_run"
    /\ IF dry_run THEN Return(0) ELSE Goto("load")
    /\ UNCHANGED <<tool, args, fs0, side_vars, files, total_records, loop_vars>>

\* mutant: the buffer is filled from the destination window
overwrite_read_destination == fread_range(dst_begin, copy_len)

\* lines 198-206: fseek(src_begin) ; fread(src_records, copy_len)
overwrite_read_source == fread_range(src_begin, copy_len)

\* lines 189-215: the source range is captured before the output exists
overwrite_load_source ==
    /\ tool = "overwrite" /\ ~halted /\ pc = "load"
    /\ LET got == overwrite_read_source
       IN  IF Len(got) # copy_len
           THEN Return(1) /\ UNCHANGED buf
           ELSE buf' = got /\ Goto("open_out")
    /\ UNCHANGED <<tool, args, fs0, side_vars, files, total_records, idx,
                   src_idx, insert_vars, iter_vars, scan_vars>>

\* lines 217-232
overwrite_open_output ==
    /\ tool = "overwrite" /\ ~halted /\ pc = "open_out"
    /\ fopen_wb
    /\ idx' = 0 /\ src_idx' = 0
    /\ Goto("stream")
    /\ UNCHANGED <<tool, args, fs0, side_vars, total_records, buf, insert_vars,
                   iter_vars, scan_vars>>

\* mutant: the window test is off by one
in_dst_range_shifted == idx > dst_begin /\ idx <= dst_end

\* line 235: the record just read lies in the destination window
in_dst_range == idx >= dst_begin /\ idx < dst_end

\* mutant: src_idx++ is missing
next_src_idx_stuck == src_idx

\* line 245: the buffer index after one buffered record was emitted
next_src_idx == src_idx + 1

\* lines 234-258: one iteration of the streaming loop (fread returned 1)
overwrite_stream_record ==
    /\ tool = "overwrite" /\ ~halted /\ pc = "stream"
    /\ idx < Len(InData)
    /\ LET rec == InData[idx + 1]
       IN  IF in_dst_range
           THEN /\ fs' = fwrite(<<buf[src_idx + 1]>>)
                /\ src_idx' = next_src_idx
           ELSE /\ fs' = fwrite(<<rec>>)
                /\ UNCHANGED src_idx
    /\ idx' = idx + 1
    /\ UNCHANGED <<tool, args, fs0, side_vars, pc, halted, exit_code, fp_in,
                   stale, fp_out, total_records, buf, insert_vars, iter_vars,
                   scan_vars>>

\* lines 260-270: fread returned 0
overwrite_after_loop ==
    /\ fp_in' = NoPath /\ fp_out' = NoPath
    /\ halted' = TRUE /\ exit_code' = 0 /\ pc' = "finish"
    /\ UNCHANGED <<tool, args, fs0, side_vars, fs, stale, total_records,
                   loop_vars>>

\* fread returned 0 at the end of the file
overwrite_finish ==
    /\ tool = "overwrite" /\ ~halted /\ pc = "stream"
    /\ idx >= Len(InData)
    /\ overwrite_after_loop

\* fread returned 0 before the end of the file (a failing read): the loop
\* ends in the same way, neither ferror nor the record count is looked at
overwrite_read_error ==
    /\ tool = "overwrite" /\ ~halted /\ pc = "stream"
    /\ idx < Len(InData)
    /\ overwrite_after_loop

\* =============================================== trace_insert_all_iters.c
first_a_begin == args.first_a_begin
a_len == args.a_len
b_len == args.b_len
iterations == args.iterations
every == args.every
\* a_pos and b_ratio are the numerators of fractions of RatioDen
RatioDen == 2^RatioBits
a_pos == args.a_pos
b_ratio == args.b_ratio

\* lines 109, 112: strtod parses "nan" to a NaN, here a numerator beyond
\* every number the model draws
NaN == 2^(IntBits + RatioBits + 1)
isnan(x) == x = NaN
\* the double comparisons <, <=, > of lines 143-154: false on a NaN
fp_lt(x, y) == ~isnan(x) /\ x < y
fp_le(x, y) == ~isnan(x) /\ x <= y
fp_gt(x, y) == ~isnan(x) /\ x > y
\* the unit in the last place of the double that holds m >= 0: the least
\* power of two q, from q on, with m < 2^MantBits * q
RECURSIVE ulp(_, _)
ulp(m, q) == IF m < 2^MantBits * q THEN q ELSE ulp(m, 2 * q)

\* lines 165, 169: the conversion of an int64_t operand to double, and the
\* rounding of a double product: the nearest value of MantBits significant
\* bits, ties to even.  v may be a numerator over a power of two, which does
\* not change the significand
to_double(v) ==
    LET m == IF v < 0 THEN -v ELSE v
        q == ulp(m, 1)
        lo == (m \div q) * q
        r == m - lo
        nearest == IF 2 * r < q THEN lo
                   ELSE IF 2 * r > q THEN lo + q
                   ELSE IF (m \div q) % 2 = 0 THEN lo ELSE lo + q
    IN  IF v < 0 THEN -nearest ELSE nearest

\* lines 165, 169: (int64_t)(len * ratio).  The cast truncates; the cast of
\* a NaN or of a value outside the int64_t range is undefined and gives
\* whatever the build's conversion instruction gives (x86-64: INT64_MIN for
\* both; AArch64: 0 for a NaN, saturation for a value out of range)
double_to_int64(len, ratio) ==
    IF isnan(ratio) THEN args.nan_int64
    ELSE LET p == to_double(to_double(len) * ratio)
             t == IF p >= 0 THEN p \div RatioDen ELSE -((-p) \div RatioDen)
         IN  IF InInt64(t) THEN t
             ELSE IF args.nan_int64 = INT64_MIN THEN INT64_MIN
             ELSE IF t > 0 THEN INT64_MAX ELSE INT64_MIN

\* lines 127-161: required arguments, the ratios, every
all_iters_args_rejected ==
    \/ in_path = NoPath
    \/ (out_path = NoPath /\ ~dry_run)
    \/ first_a_begin < 0 \/ a_len <= 0 \/ b_len <= 0 \/ iterations <= 0
    \/ fp_lt(a_pos, 0) \/ fp_lt(b_ratio, 0)
    \/ fp_gt(a_pos, RatioDen)
    \/ fp_le(b_ratio, 0) \/ fp_gt(b_ratio, RatioDen)
    \/ every < 0

all_iters_check_args ==
    /\ tool = "all_iters" /\ ~halted /\ pc = "args"
    /\ IF all_iters_args_rejected THEN Return(1) ELSE Goto("open_in")
    /\ UNCHANGED <<tool, args, fs0, side_vars, files, total_records, loop_vars>>

\* line 164
iter_len == Wrap(a_len + b_len)

\* mutant: a B fraction that rounds down to 0 inserts nothing
ratio_len_floor(len, ratio) == double_to_int64(len, ratio)

\* lines 165-168 (and trace_insert_b_at_a.c 173-176):
\* (int64_t)(len * ratio), at least 1
ratio_len(len, ratio) ==
    LET n == double_to_int64(len, ratio)
    IN  IF n = 0 THEN 1 ELSE n

b_insert_len == ratio_len(b_len, b_ratio)

\* line 169: (int64_t)(a_len * a_pos)
a_offset == double_to_int64(a_len, a_pos)

\* mutant: every = 0 is taken for every = 1
is_active_default(i) == i % (IF every > 0 THEN every ELSE 1) = 0

\* lines 175, 251, 297, 366: iteration i is selected by --every
is_active(i) == every > 0 /\ i % every = 0

\* lines 172-179: the counting loop, from iteration i on
RECURSIVE count_active(_)
count_active(i) ==
    IF i >= iterations THEN 0
    ELSE (IF is_active(i) THEN 1 ELSE 0) + count_active(i + 1)

active_iters == IF every > 0 THEN count_active(0) ELSE 0

\* line 207
total_insert == Wrap(active_iters * b_insert_len)

\* lines 298, 367 (252): a_begin_i = first_a_begin + i * iter_len
a_begin_i(i) == Wrap(first_a_begin + Wrap(i * iter_len))
\* lines 299, 368 (253)
insert_at_i(i) == Wrap(a_begin_i(i) + a_offset)
\* lines 300, 369 (254)
b_begin_i(i) == Wrap(a_begin_i(i) + a_len)

\* one of the sums or products for iteration i leaves the int64_t range
iter_overflow(i) ==
    \/ ~InInt64(i * iter_len)
    \/ ~InInt64(first_a_begin + Wrap(i * iter_len))
    \/ ~InInt64(a_begin_i(i) + a_offset)
    \/ ~InInt64(a_begin_i(i) + a_len)

\* lines 181-208
all_iters_open_input ==
    /\ tool = "all_iters" /\ ~halted /\ pc = "open_in"
    /\ IF OpenInputFails
       THEN Return(1) /\ UNCHANGED <<fp_in, total_records>>
       ELSE /\ fp_in' = in_path
            /\ total_records' = filesize(fs[in_path]) \div RecordSize
            /\ Goto("validate")
    /\ UNCHANGED <<tool, args, fs0, side_vars, fs, stale, fp_out, loop_vars>>

\* lines 164, 207, 208
all_iters_open_overflow ==
    /\ pc = "open_in"
    /\ \/ ~InInt64(a_len + b_len)
       \/ /\ ~OpenInputFails
          /\ \/ ~InInt64(active_iters * b_insert_len)
             \/ ~InInt64(filesize(fs[in_path]) \div RecordSize + total_insert)

\* line 236
last_iter_end == Wrap(first_a_begin + Wrap(iterations * iter_len))

\* lines 235-243: the structure against the record count
all_iters_ranges_rejected == last_iter_end > total_records

all_iters_validate ==
    /\ tool = "all_iters" /\ ~halted /\ pc = "validate"
    /\ IF all_iters_ranges_rejected THEN Return(1) ELSE Goto("dry_run")
    /\ UNCHANGED <<tool, args, fs0, side_vars, files, total_records, loop_vars>>

all_iters_validate_overflow ==
    /\ pc = "validate"
    /\ \/ ~InInt64(iterations * iter_len)
       \/ ~InInt64(first_a_begin + Wrap(iterations * iter_len))

\* lines 245-265
all_iters_dry_run ==
    /\ tool = "all_iters" /\ ~halted /\ pc = "dry_run"
    /\ IF dry_run THEN Return(0) ELSE Goto("open_out")
    /\ UNCHANGED <<tool, args, fs0, side_vars, files, total_records, loop_vars>>

\* lines 250-259: the plan printed for the first 5 active iterations from i on
RECURSIVE dry_run_overflow(_, _)
dry_run_overflow(i, count) ==
    IF i >= iterations \/ count >= 5 THEN FALSE
    ELSE IF is_active(i)
         THEN \/ iter_overflow(i)
              \/ ~InInt64(b_begin_i(i) + b_insert_len)
              \/ dry_run_overflow(i + 1, count + 1)
         ELSE dry_run_overflow(i + 1, count)

all_iters_dry_run_overflow ==
    pc = "dry_run" /\ dry_run /\ dry_run_overflow(0, 0)

\* the first selected iteration from i on (the value next_iter ends with)
RECURSIVE next_active(_)
next_active(i) ==
    IF i >= iterations \/ is_active(i) THEN i ELSE next_active(i + 1)

\* lines 296-304 and 363-373: look for the next insertion point from iteration
\* i on; next_b_begin keeps its value when there is none
find_insertion(i, insert_at_none, b_begin_old) ==
    LET j == next_active(i)
    IN  IF j < iterations
        THEN [next_iter |-> j, next_insert_at |-> insert_at_i(j),
              next_b_begin |-> b_begin_i(j)]
        ELSE [next_iter |-> j, next_insert_at |-> insert_at_none,
              next_b_begin |-> b_begin_old]

find_overflow(i) ==
    LET j == next_active(i) IN j < iterations /\ iter_overflow(j)

\* lines 267-310: the buffer, the output file, the first insertion point
all_iters_open_output ==
    /\ tool = "all_iters" /\ ~halted /\ pc = "open_out"
    /\ fopen_wb
    /\ LET f == find_insertion(0, -1, -1)
       IN  /\ next_iter' = f.next_iter
           /\ next_insert_at' = f.next_insert_at
           /\ next_b_begin' = f.next_b_begin
    /\ insertions_done' = 0 /\ in_idx' = 0 /\ out_idx' = 0
    /\ current_pos' = 0
    /\ Goto("stream")
    /\ UNCHANGED <<tool, args, fs0, warnings, total_records, buf, idx, src_idx,
                   inserted, scan_vars>>

all_iters_open_output_overflow ==
    pc = "open_out" /\ find_overflow(0)

\* line 316: the record just read is the pending insertion point
insertion_due == next_insert_at >= 0 /\ in_idx = next_insert_at

\* lines 321-338: fseek to the B chunk (fails on a negative offset) and fread
read_b_chunk ==
    IF next_b_begin < 0 THEN <<>> ELSE fread_range(next_b_begin, b_insert_len)

\* mutant: the forward position is not restored after the B chunk was read
seek_back_missing(saved_pos, pos) == pos

\* lines 352-360: fseek(fp_in, saved_pos, SEEK_SET) from position pos
seek_back(saved_pos, pos) == saved_pos

\* lines 312-393: one iteration of the streaming loop (fread returned 1): the
\* record at the stream's position is read; at an insertion point the B chunk
\* is read out of band and the position after the record restored
all_iters_stream_record ==
    /\ tool = "all_iters" /\ ~halted /\ pc = "stream"
    /\ current_pos < Len(InData)
    /\ LET rec == InData[current_pos + 1]
           saved_pos == current_pos + 1
           got == read_b_chunk
           f == find_insertion(next_iter + 1, -1, next_b_begin)
       IN  IF insertion_due
           THEN IF Len(got) # b_insert_len
                THEN /\ Return(1)
                     /\ buf' = got
                     /\ UNCHANGED <<fs, in_idx, out_idx, iter_vars, current_pos>>
                ELSE /\ buf' = got
                     /\ fs' = fwrite(got \o <<rec>>)
                     /\ out_idx' = out_idx + b_insert_len + 1
                     /\ insertions_done' = insertions_done + 1
                     /\ current_pos' =
                            seek_back(saved_pos, next_b_begin + b_insert_len)
                     /\ next_iter' = f.next_iter
                     /\ next_insert_at' = f.next_insert_at
                     /\ next_b_begin' = f.next_b_begin
                     /\ in_idx' = in_idx + 1
                     /\ UNCHANGED <<pc, halted, exit_code>>
           ELSE /\ fs' = fwrite(<<rec>>)
                /\ out_idx' = out_idx + 1
                /\ in_idx' = in_idx + 1
                /\ current_pos' = saved_pos
                /\ UNCHANGED <<buf, iter_vars, pc, halted, exit_code>>
    /\ UNCHANGED <<tool, args, fs0, warnings, fp_in, stale, fp_out,
                   total_records, idx, src_idx, inserted, scan_vars>>

all_iters_stream_overflow ==
    /\ pc = "stream" /\ current_pos < Len(InData) /\ insertion_due
    /\ Len(read_b_chunk) = b_insert_len
    /\ find_overflow(next_iter + 1)

\* lines 395-405: fread returned 0
all_iters_after_loop ==
    /\ fp_in' = NoPath /\ fp_out' = NoPath
    /\ halted' = TRUE /\ exit_code' = 0 /\ pc' = "finish"
    /\ UNCHANGED <<tool, args, fs0, side_vars, fs, stale, total_records,
                   loop_vars>>

\* fread returned 0 at the end of the file
all_iters_finish ==
    /\ tool = "all_iters" /\ ~halted /\ pc = "stream"
    /\ current_pos >= Len(InData)
    /\ all_iters_after_loop

\* fread returned 0 before the end of the file (a failing read): the loop
\* ends in the same way, neither ferror nor the record count is looked at
all_iters_read_error ==
    /\ tool = "all_iters" /\ ~halted /\ pc = "stream"
    /\ current_pos < Len(InData)
    /\ all_iters_after_loop

all_iters_overflow ==
    \/ all_iters_open_overflow
    \/ all_iters_validate_overflow
    \/ all_iters_dry_run_overflow
    \/ all_iters_open_output_overflow
    \/ all_iters_stream_overflow

\* ================================================== trace_insert_b_at_a.c
a_begin == args.a_begin
a_end == args.a_end
b_begin == args.b_begin
b_end == args.b_end

\* lines 124-166: required arguments, the two intervals, the ratios
b_at_a_args_rejected ==
    \/ in_path = NoPath
    \/ (out_path = NoPath /\ ~dry_run)
    \/ a_begin < 0 \/ a_end < 0 \/ b_begin < 0 \/ b_end < 0
    \/ fp_lt(a_pos, 0) \/ fp_lt(b_ratio, 0)
    \/ a_begin >= a_end
    \/ b_begin >= b_end
    \/ fp_gt(a_pos, RatioDen)
    \/ fp_le(b_ratio, 0) \/ fp_gt(b_ratio, RatioDen)

b_at_a_check_args ==
    /\ tool = "b_at_a" /\ ~halted /\ pc = "args"
    /\ IF b_at_a_args_rejected THEN Return(1) ELSE Goto("open_in")
    /\ UNCHANGED <<tool, args, fs0, side_vars, files, total_records, loop_vars>>

\* lines 169-179
b_at_a_insert_at == a_begin + double_to_int64(a_end - a_begin, a_pos)
b_at_a_insert_len == ratio_len(b_end - b_begin, b_ratio)
b_at_a_src_begin == b_begin
b_at_a_src_end == b_begin + b_at_a_insert_len

\* lines 181-207
b_at_a_open_input ==
    /\ tool = "b_at_a" /\ ~halted /\ pc = "open_in"
    /\ IF OpenInputFails
       THEN Return(1) /\ UNCHANGED <<fp_in, total_records>>
       ELSE /\ fp_in' = in_path
            /\ total_records' = filesize(fs[in_path]) \div RecordSize
            /\ Goto("validate")
    /\ UNCHANGED <<tool, args, fs0, side_vars, fs, stale, fp_out, loop_vars>>

\* lines 233-251
b_at_a_ranges_rejected ==
    \/ a_end > total_records
    \/ b_end > total_records
    \/ b_at_a_insert_at > total_records

\* line 254: insert_at is outside the A range
b_at_a_outside_a == b_at_a_insert_at < a_begin \/ b_at_a_insert_at > a_end

\* lines 233-258: the bounds, then the advisory, which only prints
b_at_a_validate_ranges ==
    /\ tool = "b_at_a" /\ ~halted /\ pc = "validate"
    /\ IF b_at_a_ranges_rejected
       THEN Return(1) /\ UNCHANGED warnings
       ELSE /\ warnings' = IF b_at_a_outside_a THEN {"outside_a"} ELSE {}
            /\ Goto("dry_run")
    /\ UNCHANGED <<tool, args, fs0, current_pos, files, total_records,
                   loop_vars>>

\* line 207: output_records = total_records + b_insert_len
b_at_a_overflow ==
    pc = "validate" /\ ~InInt64(total_records + b_at_a_insert_len)

\* lines 260-273
b_at_a_dry_run ==
    /\ tool = "b_at_a" /\ ~halted /\ pc = "dry_run"
    /\ IF dry_run THEN Return(0) ELSE Goto("load")
    /\ UNCHANGED <<tool, args, fs0, side_vars, files, total_records, loop_vars>>

\* lines 275-302
b_at_a_load_source ==
    /\ tool = "b_at_a" /\ ~halted /\ pc = "load"
    /\ LET got == fread_range(b_at_a_src_begin, b_at_a_insert_len)
       IN  IF Len(got) # b_at_a_insert_len
           THEN Return(1) /\ UNCHANGED buf
           ELSE buf' = got /\ Goto("open_out")
    /\ UNCHANGED <<tool, args, fs0, side_vars, files, total_records, idx,
                   src_idx, insert_vars, iter_vars, scan_vars>>

\* lines 304-320
b_at_a_open_output ==
    /\ tool = "b_at_a" /\ ~halted /\ pc = "open_out"
    /\ fopen_wb
    /\ in_idx' = 0 /\ out_idx' = 0 /\ inserted' = FALSE
    /\ Goto("stream")
    /\ UNCHANGED <<tool, args, fs0, side_vars, total_records, buf, idx, src_idx,
                   iter_vars, scan_vars>>

\* lines 322-349: one iteration of the streaming loop (fread returned 1)
b_at_a_stream_record ==
    /\ tool = "b_at_a" /\ ~halted /\ pc = "stream"
    /\ in_idx < Len(InData)
    /\ LET rec == InData[in_idx + 1]
       IN  IF ~inserted /\ in_idx = b_at_a_insert_at
           THEN /\ fs' = fwrite(buf \o <<rec>>)
                /\ out_idx' = out_idx + b_at_a_insert_len + 1
                /\ inserted' = TRUE
           ELSE /\ fs' = fwrite(<<rec>>)
                /\ out_idx' = out_idx + 1
                /\ UNCHANGED inserted
    /\ in_idx' = in_idx + 1
    /\ UNCHANGED <<tool, args, fs0, side_vars, pc, halted, exit_code, fp_in,
                   stale, fp_out, total_records, buf, idx, src_idx, iter_vars,
                   scan_vars>>

\* lines 351-375: fread returned 0; append at end of file if still pending
b_at_a_after_loop ==
    /\ IF ~inserted /\ b_at_a_insert_at = total_records
       THEN /\ fs' = fwrite(buf)
            /\ out_idx' = out_idx + b_at_a_insert_len
            /\ inserted' = TRUE
       ELSE UNCHANGED <<fs, out_idx, inserted>>
    /\ fp_in' = NoPath /\ fp_out' = NoPath
    /\ halted' = TRUE /\ exit_code' = 0 /\ pc' = "finish"
    /\ UNCHANGED <<tool, args, fs0, side_vars, stale, total_records, buf, idx,
                   in_idx, src_idx, iter_vars, scan_vars>>

\* fread returned 0 at the end of the file
b_at_a_finish ==
    /\ tool = "b_at_a" /\ ~halted /\ pc = "stream"
    /\ in_idx >= Len(InData)
    /\ b_at_a_after_loop

\* fread returned 0 before the end of the file (a failing read): the loop
\* ends in the same way, neither ferror nor the record count is looked at
b_at_a_read_error ==
    /\ tool = "b_at_a" /\ ~halted /\ pc = "stream"
    /\ in_idx < Len(InData)
    /\ b_at_a_after_loop

\* ===================================================== find_b_accesses.c
trace_path == args.in_path
b_base == args.b_base
b_size == args.b_size
max_hits == args.max_hits

\* uint64_t arithmetic wraps
UInt64(x) == x % 2^IntBits

\* lines 87-91
find_check_args ==
    /\ tool = "find" /\ ~halted /\ pc = "args"
    /\ IF trace_path = NoPath \/ ~args.have_b_base \/ ~args.have_b_size
       THEN Return(1)
       ELSE Goto("open_in")
    /\ UNCHANGED <<tool, args, fs0, side_vars, files, total_records, loop_vars>>

\* lines 93-119: the file is opened; its size is not looked at
find_open ==
    /\ tool = "find" /\ ~halted /\ pc = "open_in"
    /\ IF ~fs[trace_path].exists
       THEN Return(1) /\ UNCHANGED fp_in
       ELSE fp_in' = trace_path /\ Goto("stream")
    /\ UNCHANGED <<tool, args, fs0, side_vars, fs, stale, fp_out,
                   total_records, loop_vars>>

\* mutant: the sentinel 0 is an address like any other
in_b_range_with_zero(addr) ==
    addr >= b_base /\ addr < UInt64(b_base + b_size)

\* mutant: the upper bound of the window is not reduced to 64 bits
in_b_range_unwrapped(addr) ==
    addr # 0 /\ addr >= b_base /\ addr < b_base + b_size

\* lines 127, 144
in_b_range(addr) ==
    addr # 0 /\ addr >= b_base /\ addr < UInt64(b_base + b_size)

\* the slots of a record in the order they are tested: loads, then stores
record_slots(rec) ==
    [i \in 1..NUM_INSTR_SOURCES |->
        [kind |-> "load", addr |-> rec.source_memory[i]]]
    \o [i \in 1..NUM_INSTR_DESTINATIONS |->
        [kind |-> "store", addr |-> rec.destination_memory[i]]]

\* mutant: the limit is noticed one hit late
limit_reached_late(count) == max_hits > 0 /\ count > max_hits

\* lines 135, 152: the hit limit is reached (0 = unlimited)
limit_reached(count) == max_hits > 0 /\ count >= max_hits

\* lines 125-156: test slots k.. of rec; stop (goto done) once max_hits is reached
RECURSIVE scan_slots(_, _, _, _)
scan_slots(rec, k, count, out) ==
    LET slots == record_slots(rec)
    IN  IF k > Len(slots) THEN [count |-> count, out |-> out, stop |-> FALSE]
        ELSE IF in_b_range(slots[k].addr)
             THEN LET hit == [idx |-> idx, kind |-> slots[k].kind,
                              ip |-> rec.ip, addr |-> slots[k].addr,
                              offset |-> UInt64(slots[k].addr - b_base)]
                  IN  IF limit_reached(count + 1)
                      THEN [count |-> count + 1, out |-> Append(out, hit),
                            stop |-> TRUE]
                      ELSE scan_slots(rec, k + 1, count + 1, Append(out, hit))
             ELSE scan_slots(rec, k + 1, count, out)

\* lines 121-159: one iteration of the scanning loop (fread returned 1)
find_scan_record ==
    /\ tool = "find" /\ ~halted /\ pc = "stream"
    /\ idx < Len(InData)
    /\ LET r == scan_slots(InData[idx + 1], 1, hit_count, hits)
       IN  /\ hit_count' = r.count
           /\ hits' = r.out
           /\ IF r.stop
              THEN pc' = "done" /\ UNCHANGED idx
              ELSE pc' = pc /\ idx' = idx + 1
    /\ total_records' = total_records + 1
    /\ UNCHANGED <<tool, args, fs0, side_vars, files, halted, exit_code, buf,
                   src_idx, insert_vars, iter_vars>>

\* lines 161-168: after the loop, or after goto done
find_done ==
    /\ tool = "find" /\ ~halted
    /\ \/ pc = "done"
       \/ (pc = "stream" /\ idx >= Len(InData))
    /\ fp_in' = NoPath
    /\ halted' = TRUE /\ exit_code' = 0 /\ pc' = "done"
    /\ UNCHANGED <<tool, args, fs0, side_vars, fs, stale, fp_out,
                   total_records, loop_vars>>

\* ======================================================= trace_inspect.c
max_records == args.max_records

\* lines 75-79
inspect_check_args ==
    /\ tool = "inspect" /\ ~halted /\ pc = "args"
    /\ IF trace_path = NoPath THEN Return(1) ELSE Goto("open_in")
    /\ UNCHANGED <<tool, args, fs0, side_vars, files, total_records, loop_vars>>

\* lines 81-97: the file is opened; its size is not looked at
inspect_open ==
    /\ tool = "inspect" /\ ~halted /\ pc = "open_in"
    /\ IF ~fs[trace_path].exists
       THEN Return(1) /\ UNCHANGED fp_in
       ELSE fp_in' = trace_path /\ Goto("stream")
    /\ UNCHANGED <<tool, args, fs0, side_vars, fs, stale, fp_out,
                   total_records, loop_vars>>

\* lines 100-128: the non-zero entries of an address array, in slot order
RECURSIVE non_zero(_, _)
non_zero(mem, k) ==
    IF k > Len(mem) THEN <<>>
    ELSE (IF mem[k] # 0 THEN <<mem[k]>> ELSE <<>>) \o non_zero(mem, k + 1)

\* lines 99-138: one iteration of the printing loop
inspect_print_record ==
    /\ tool = "inspect" /\ ~halted /\ pc = "stream"
    /\ idx < max_records /\ idx < Len(InData)
    /\ LET rec == InData[idx + 1]
       IN  hits' = Append(hits, [idx |-> idx, ip |-> rec.ip,
                                 src_mem |-> non_zero(rec.source_memory, 1),
                                 dst_mem |-> non_zero(rec.destination_memory, 1)])
    /\ idx' = idx + 1
    /\ UNCHANGED <<tool, args, fs0, side_vars, files, pc, halted, exit_code,
                   total_records, buf, src_idx, insert_vars, iter_vars,
                   hit_count>>

\* lines 140-152: the limit or the end of the file was reached
inspect_done ==
    /\ tool = "inspect" /\ ~halted /\ pc = "stream"
    /\ ~(idx < max_records /\ idx < Len(InData))
    /\ fp_in' = NoPath
    /\ halted' = TRUE /\ exit_code' = 0 /\ pc' = "done"
    /\ UNCHANGED <<tool, args, fs0, side_vars, fs, stale, fp_out,
                   total_records, loop_vars>>

\* ============================================================ the runs
\* index arguments: -1 is the value of a flag that was not given
IndexArgs == (-1 .. MaxRecords - 1) \cup {INT64_MAX}

\* the lengths of the input traces: the short ones and the two longest
TraceLengths == (0..3) \cup {MaxRecords - 1, MaxRecords}

\* the input path holds nothing, a trace of n records, or a file with a
\* trailing partial record
InputFiles ==
    {AbsentFile} \cup {TraceFile(Trace(n), 0) : n \in TraceLengths}
                 \cup {TraceFile(Trace(2), 1)}

\* (in_path, out_path, what the other path holds before the run)
PathChoices ==
    {<<InPath, NoPath, AbsentFile>>, <<InPath, InPath, AbsentFile>>,
     <<InPath, OtherPath, AbsentFile>>, <<InPath, OtherPath, OldOutput>>,
     <<NoPath, OtherPath, AbsentFile>>}

InitRun(t, a, inFile, oldOut) ==
    /\ tool = t
    /\ args = a
    /\ fs = [p \in Paths |-> IF p = InPath THEN inFile ELSE oldOut]
    /\ fs0 = fs
    /\ pc = "args"
    /\ halted = FALSE
    /\ exit_code = 0
    /\ fp_in = NoPath
    /\ stale = FALSE
    /\ fp_out = NoPath
    /\ total_records = 0
    /\ buf = <<>>
    /\ idx = 0
    /\ in_idx = 0
    /\ out_idx = 0
    /\ inserted = FALSE
    /\ src_idx = 0
    /\ next_iter = 0
    /\ next_insert_at = -1
    /\ next_b_begin = -1
    /\ insertions_done = 0
    /\ hit_count = 0
    /\ hits = <<>>
    /\ warnings = {}
    /\ current_pos = 0

InitInsert ==
    \E sb \in IndexArgs, se \in IndexArgs, at \in IndexArgs,
       dr \in BOOLEAN, oc \in PathChoices, f \in InputFiles :
        InitRun("insert",
                [in_path |-> oc[1], out_path |-> oc[2], dry_run |-> dr,
                 src_begin |-> sb, src_end |-> se, insert_at |-> at],
                f, oc[3])

InitOverwrite ==
    \E sb \in IndexArgs, se \in IndexArgs, db \in IndexArgs,
       dr \in BOOLEAN, oc \in PathChoices, f \in InputFiles :
        InitRun("overwrite",
                [in_path |-> oc[1], out_path |-> oc[2], dry_run |-> dr,
                 src_begin |-> sb, src_end |-> se, dst_begin |-> db],
                f, oc[3])

\* a count large enough for iterations * iter_len to leave the int64_t range
BigCount == 2^(IntBits - 2)

\* the periodic splicer's arguments: every combination of the usual values,
\* and the usual run with one argument missing, out of range or huge
AllItersUsual ==
    [first_a_begin : {0, 1}, a_len : {1, 2}, b_len : {1, 2},
     iterations : {1, 2, 3, BigCount},
     a_pos : {0, RatioDen \div 2, RatioDen},
     b_ratio : {1, RatioDen \div 2, RatioDen},
     every : {0, 1, 2}]

\* the first lengths that a double does not hold: RoundsDown becomes
\* RoundsDown - 1, RoundsUp becomes RoundsUp + 1
RoundsDown == 2^MantBits + 1
RoundsUp == 2^MantBits + 3

AllItersBase ==
    [first_a_begin |-> 0, a_len |-> 2, b_len |-> 2, iterations |-> 1,
     a_pos |-> RatioDen \div 2, b_ratio |-> RatioDen, every |-> 1]

AllItersUnusual ==
    {[AllItersBase EXCEPT !.first_a_begin = -1]}
    \cup {[AllItersBase EXCEPT !.a_len = v] : v \in {-1, 0, BigCount, INT64_MAX}}
    \cup {[AllItersBase EXCEPT !.b_len = v] : v \in {-1, 0, BigCount}}
    \cup {[AllItersBase EXCEPT !.iterations = v] : v \in {-1, 0}}
    \cup {[AllItersBase EXCEPT !.a_pos = v] :
              v \in {-RatioDen, RatioDen + 1, NaN}}
    \cup {[AllItersBase EXCEPT !.b_ratio = v] :
              v \in {-RatioDen, 0, RatioDen + 1, NaN}}
    \cup {[AllItersBase EXCEPT !.every = v] : v \in {-1, BigCount}}
    \cup {[AllItersBase EXCEPT !.a_len = al, !.b_len = bl, !.a_pos = ap] :
              al \in {1, RoundsDown, RoundsUp}, bl \in {1, RoundsDown, RoundsUp},
              ap \in {0, RatioDen}}

\* what (int64_t)NaN gives: INT64_MIN (x86-64 cvttsd2si), 0 (AArch64 fcvtzs)
NanCasts == {INT64_MIN, 0}

InitAllIters ==
    \E a \in AllItersUsual \cup AllItersUnusual, nc \in NanCasts,
       dr \in BOOLEAN, oc \in PathChoices, f \in InputFiles :
        /\ nc = INT64_MIN \/ a \in AllItersUnusual
        /\ InitRun("all_iters",
                [in_path |-> oc[1], out_path |-> oc[2], dry_run |-> dr,
                 nan_int64 |-> nc,
                 first_a_begin |-> a.first_a_begin, a_len |-> a.a_len,
                 b_len |-> a.b_len, iterations |-> a.iterations,
                 a_pos |-> a.a_pos, b_ratio |-> a.b_ratio, every |-> a.every],
                f, oc[3])

\* the ratio-addressed insert's arguments: the usual intervals and ratios,
\* and the usual run with one argument missing, out of range or huge
BAtAUsual ==
    {[a_begin |-> ab, a_end |-> ab + al, b_begin |-> bb, b_end |-> bb + bl,
      a_pos |-> ap, b_ratio |-> br] :
        ab \in {0, 1}, al \in {1, 2, 3}, bb \in {0, 2, 3}, bl \in {1, 2, 4},
        ap \in {0, RatioDen \div 2, RatioDen},
        br \in {1, RatioDen \div 2, RatioDen}}

BAtABase ==
    [a_begin |-> 0, a_end |-> 2, b_begin |-> 2, b_end |-> 4,
     a_pos |-> RatioDen \div 2, b_ratio |-> RatioDen]

BAtAUnusual ==
    {[BAtABase EXCEPT !.a_begin = v] : v \in {-1, 2}}
    \cup {[BAtABase EXCEPT !.a_end = v] : v \in {-1, INT64_MAX}}
    \cup {[BAtABase EXCEPT !.b_begin = v] : v \in {-1, 4}}
    \cup {[BAtABase EXCEPT !.b_end = v] : v \in {-1, INT64_MAX}}
    \cup {[BAtABase EXCEPT !.a_pos = v] : v \in {-RatioDen, RatioDen + 1, NaN}}
    \cup {[BAtABase EXCEPT !.b_ratio = v] :
              v \in {-RatioDen, 0, RatioDen + 1, NaN}}
    \cup {[a_begin |-> 0, a_end |-> al, b_begin |-> 0, b_end |-> bl,
           a_pos |-> ap, b_ratio |-> RatioDen] :
              al \in {1, RoundsDown, RoundsUp}, bl \in {1, RoundsDown, RoundsUp},
              ap \in {RatioDen \div 2, RatioDen}}

InitBAtA ==
    \E a \in BAtAUsual \cup BAtAUnusual, nc \in NanCasts,
       dr \in BOOLEAN, oc \in PathChoices, f \in InputFiles :
        /\ nc = INT64_MIN \/ a \in BAtAUnusual
        /\ InitRun("b_at_a",
                [in_path |-> oc[1], out_path |-> oc[2], dry_run |-> dr,
                 nan_int64 |-> nc,
                 a_begin |-> a.a_begin, a_end |-> a.a_end,
                 b_begin |-> a.b_begin, b_end |-> a.b_end,
                 a_pos |-> a.a_pos, b_ratio |-> a.b_ratio],
                f, oc[3])

\* --trace given or not
TracePaths == {NoPath, InPath}

InitFind ==
    \E tp \in TracePaths, base \in {0, 1, 3, 2^IntBits - 2},
       size \in {0, 1, 3, 2^IntBits - 1}, mh \in 0..3,
       hb \in BOOLEAN, hs \in BOOLEAN, f \in InputFiles :
        InitRun("find",
                [in_path |-> tp, b_base |-> base, b_size |-> size,
                 max_hits |-> mh, have_b_base |-> hb, have_b_size |-> hs],
                f, AbsentFile)

\* --max: 100 when not given
InitInspect ==
    \E tp \in TracePaths, mr \in {0, 1, 2, 100}, f \in InputFiles :
        InitRun("inspect", [in_path |-> tp, max_records |-> mr], f, AbsentFile)

\* an overflowing signed expression of the block at pc is about to be evaluated
signed_overflow ==
    \/ (tool = "insert" /\ insert_overflow)
    \/ (tool = "overwrite" /\ overwrite_overflow)
    \/ (tool = "all_iters" /\ all_iters_overflow)
    \/ (tool = "b_at_a" /\ b_at_a_overflow)

\* a trapping build aborts the process (SIGABRT, status 134) at the overflow;
\* any other build runs on with the wrapped value
overflow_trap ==
    /\ ~halted /\ signed_overflow
    /\ halted' = TRUE /\ exit_code' = 134 /\ pc' = pc
    /\ UNCHANGED <<tool, args, fs0, side_vars, files, total_records, loop_vars>>

NextInsert ==
    \/ insert_check_args
    \/ insert_open_input
    \/ insert_validate_ranges
    \/ insert_dry_run
    \/ insert_load_source
    \/ insert_open_output
    \/ insert_stream_record
    \/ insert_finish
    \/ overflow_trap

SpecInsert == InitInsert /\ [][NextInsert]_vars

\* insert on a build in which signed overflow wraps and never traps
NextInsertWrapping ==
    \/ insert_check_args
    \/ insert_open_input
    \/ insert_validate_ranges
    \/ insert_dry_run
    \/ insert_load_source
    \/ insert_open_output
    \/ insert_stream_record
    \/ insert_finish

SpecInsertWrapping == InitInsert /\ [][NextInsertWrapping]_vars

NextOverwrite ==
    \/ overwrite_check_args
    \/ overwrite_open_input
    \/ overwrite_validate_ranges
    \/ overwrite_dry_run
    \/ overwrite_load_source
    \/ overwrite_open_output
    \/ overwrite_stream_record
    \/ overwrite_finish
    \/ overflow_trap

SpecOverwrite == InitOverwrite /\ [][NextOverwrite]_vars

NextAllIters ==
    \/ all_iters_check_args
    \/ all_iters_open_input
    \/ all_iters_validate
    \/ all_iters_dry_run
    \/ all_iters_open_output
    \/ all_iters_stream_record
    \/ all_iters_finish
    \/ overflow_trap

SpecAllIters == InitAllIters /\ [][NextAllIters]_vars

NextBAtA ==
    \/ b_at_a_check_args
    \/ b_at_a_open_input
    \/ b_at_a_validate_ranges
    \/ b_at_a_dry_run
    \/ b_at_a_load_source
    \/ b_at_a_open_output
    \/ b_at_a_stream_record
    \/ b_at_a_finish
    \/ overflow_trap

SpecBAtA == InitBAtA /\ [][NextBAtA]_vars

NextFind ==
    \/ find_check_args
    \/ find_open
    \/ find_scan_record
    \/ find_done

SpecFind == InitFind /\ [][NextFind]_vars

NextInspect ==
    \/ inspect_check_args
    \/ inspect_open
    \/ inspect_print_record
    \/ inspect_done

SpecInspect == InitInspect /\ [][NextInspect]_vars

\* one invocation of any of the six tools
Init ==
    \/ InitInsert
    \/ InitOverwrite
    \/ InitBAtA
    \/ InitAllIters
    \/ InitFind
    \/ InitInspect

Next ==
    \/ NextInsert
    \/ NextOverwrite
    \/ NextBAtA
    \/ NextAllIters
    \/ NextFind
    \/ NextInspect

Spec == Init /\ [][Next]_vars

\* a read of the forward stream fails
read_error ==
    \/ insert_read_error
    \/ overwrite_read_error
    \/ b_at_a_read_error
    \/ all_iters_read_error

NextReadErrors ==
    \/ Next
    \/ read_error

\* the runs of Spec and the runs in which a read of the forward stream fails
SpecReadErrors == Init /\ [][NextReadErrors]_vars


\* ============================================================ the claims
\* the input trace as it was before the run, and the file the run wrote
input == fs0[in_path].recs
output == fs[out_path].recs
N == Len(input)

\* the tool ran to its end, wrote its output and returned 0
Completed(t) ==
    tool = t /\ halted /\ exit_code = 0 /\ ~dry_run /\ out_path # in_path

\* C1: a completed insert wrote N + (src_end - src_begin) records: the input's
\* [0, insert_at), then the input's [src_begin, src_end), then the input's
\* [insert_at, N)
C1_InsertLayout ==
    Completed("insert") =>
        /\ 0 <= src_begin /\ src_begin < src_end /\ src_end <= N
        /\ 0 <= insert_at /\ insert_at <= N
        /\ Len(output) = N + (src_end - src_begin)
        /\ output = SubSeq(input, 1, insert_at)
                    \o SubSeq(input, src_begin + 1, src_end)
                    \o SubSeq(input, insert_at + 1, N)

\* an insert in the middle of the trace, at a point inside the source range
C1_Witness ==
    /\ Completed("insert")
    /\ src_begin < insert_at /\ insert_at < src_end /\ src_end < N

\* C2: a completed overwrite wrote exactly N records, and every record outside
\* [dst_begin, dst_begin + len) is the input's record at the same index
C2_OverwriteFrame ==
    Completed("overwrite") =>
        /\ Len(output) = N
        /\ \A i \in 1..N :
              ~(dst_begin <= i - 1 /\ i - 1 < dst_begin + copy_len)
                  => output[i] = input[i]

\* an overwrite whose window has records before and after it
C2_Witness ==
    /\ Completed("overwrite")
    /\ 0 < dst_begin /\ dst_begin + copy_len < N /\ src_begin # dst_begin

\* C3: after a completed overwrite whose window lies in the trace, the record
\* at dst_begin + k is the input's original record src_begin + k for every k
\* in [0, len), also when the two ranges overlap
C3_OverwriteCopiesOriginal ==
    (Completed("overwrite") /\ dst_begin + copy_len <= N) =>
        \A k \in 0..(copy_len - 1) :
            /\ dst_begin + k + 1 \in DOMAIN output
            /\ output[dst_begin + k + 1] = input[src_begin + k + 1]

\* source and destination overlap, the destination starting inside the source
C3_Witness ==
    /\ Completed("overwrite")
    /\ src_begin < dst_begin /\ dst_begin < src_end /\ copy_len >= 2
    /\ dst_begin + copy_len <= N

\* C4: overwriting a range with itself leaves the trace unchanged
C4_OverwriteIdempotent ==
    (Completed("overwrite") /\ dst_begin = src_begin) => output = input

C4_Witness ==
    /\ Completed("overwrite")
    /\ dst_begin = src_begin /\ copy_len >= 2 /\ 0 < src_begin /\ src_end < N

\* both ratios were given as numbers (floor(len * ratio) is defined)
RatiosAreNumbers == ~isnan(a_pos) /\ ~isnan(b_ratio)

\* the double arithmetic of len * ratio loses nothing: len and the product
\* fit the significand
ExactProduct(len, ratio) == to_double(to_double(len) * ratio) = len * ratio

\* both ratios are numbers and both products of a run are exact
ProductsExact ==
    /\ RatiosAreNumbers
    /\ tool = "all_iters" =>
          ExactProduct(a_len, a_pos) /\ ExactProduct(b_len, b_ratio)
    /\ tool = "b_at_a" =>
          /\ ExactProduct(a_end - a_begin, a_pos)
          /\ ExactProduct(b_end - b_begin, b_ratio)

\* the periodic layout in exact integers
Active == {i \in 0..(iterations - 1) : i % every = 0}
InsertedLen ==
    LET n == (b_len * b_ratio) \div RatioDen IN IF n >= 1 THEN n ELSE 1
ABegin(i) == first_a_begin + i * (a_len + b_len)
InsertAt(i) == ABegin(i) + (a_len * a_pos) \div RatioDen
BBegin(i) == ABegin(i) + a_len

\* the block that belongs immediately before input record k (0-based)
BlockBefore(k) ==
    IF \E i \in Active : InsertAt(i) = k
    THEN LET i == CHOOSE i \in Active : InsertAt(i) = k
         IN  SubSeq(input, BBegin(i) + 1, BBegin(i) + InsertedLen)
    ELSE <<>>

RECURSIVE PeriodicLayout(_)
PeriodicLayout(k) ==
    IF k >= N THEN <<>>
    ELSE BlockBefore(k) \o <<input[k + 1]>> \o PeriodicLayout(k + 1)

\* every active iteration's insertion point and source block lie in the input
AllBlocksInInput ==
    \A i \in Active : InsertAt(i) < N /\ BBegin(i) + InsertedLen <= N

\* C5: after a completed periodic run with every > 0 the output is the input
\* with, for each active iteration i in ascending order, the original records
\* [b_begin_i, b_begin_i + inserted_len) inserted immediately before original
\* record insert_at_i
C5_PeriodicLayout ==
    (Completed("all_iters") /\ every > 0 /\ RatiosAreNumbers) =>
        /\ AllBlocksInInput
        /\ output = PeriodicLayout(0)

\* the addressed region, in exact integers, lies inside the input
StructureInBounds == first_a_begin + iterations * (a_len + b_len) <= N

\* the layout of C5 for the runs whose structure really lies inside the input
\* and whose products are exact
PeriodicLayoutInBounds ==
    (Completed("all_iters") /\ every > 0 /\ ProductsExact
     /\ StructureInBounds) =>
        /\ AllBlocksInInput
        /\ output = PeriodicLayout(0)

PeriodicLayoutInBounds_Witness ==
    /\ Completed("all_iters") /\ every = 2 /\ iterations = 3
    /\ StructureInBounds /\ a_pos > 0

CeilDiv(n, d) == (n + d - 1) \div d

\* C6: a completed periodic run with every > 0 inserted
\* ceil(iterations / every) * inserted_len records (iterations * inserted_len
\* for every = 1), the total announced before writing, in as many insertions
\* as there are active iterations
C6_PeriodicCount ==
    (Completed("all_iters") /\ every > 0 /\ RatiosAreNumbers) =>
        /\ Len(output) = N + CeilDiv(iterations, every) * InsertedLen
        /\ total_insert = CeilDiv(iterations, every) * InsertedLen
        /\ insertions_done = CeilDiv(iterations, every)
        /\ active_iters = CeilDiv(iterations, every)

PeriodicCountInBounds ==
    (Completed("all_iters") /\ every > 0 /\ ProductsExact
     /\ StructureInBounds) =>
        /\ Len(output) = N + CeilDiv(iterations, every) * InsertedLen
        /\ total_insert = CeilDiv(iterations, every) * InsertedLen
        /\ insertions_done = CeilDiv(iterations, every)
        /\ active_iters = CeilDiv(iterations, every)

\* C7: a completed periodic run with every = 0 performed no insertion and
\* wrote the input unchanged
C7_EveryZeroCopies ==
    (Completed("all_iters") /\ every = 0) =>
        /\ output = input
        /\ insertions_done = 0

C7_Witness ==
    /\ Completed("all_iters") /\ every = 0
    /\ iterations >= 2 /\ N >= 4 /\ a_pos > 0

\* the four tools that write a trace
Splicers == {"insert", "overwrite", "b_at_a", "all_iters"}

\* the output path was created or truncated, or is open for writing
OutputTouched == fs # fs0 \/ fp_out # NoPath

\* every check the tool makes before it opens its output has passed
ValidationPassed ==
    /\ in_path # NoPath /\ out_path # NoPath
    /\ fs0[in_path].exists /\ filesize(fs0[in_path]) % RecordSize = 0
    /\ total_records = filesize(fs0[in_path]) \div RecordSize
    /\ CASE tool = "insert" ->
                ~insert_args_rejected /\ ~insert_ranges_rejected
         [] tool = "overwrite" ->
                ~overwrite_args_rejected /\ ~overwrite_ranges_rejected
         [] tool = "b_at_a" ->
                ~b_at_a_args_rejected /\ ~b_at_a_ranges_rejected
         [] tool = "all_iters" ->
                ~all_iters_args_rejected /\ ~all_iters_ranges_rejected

\* C8: in each of the four splicers the output path is created, truncated or
\* open only after every argument, file-size and range check has passed and
\* only without --dry-run; a dry-run, and a run that returned 1 from one of
\* the checks, leaves every file as it was
C8_OutputOnlyAfterValidation ==
    tool \in Splicers =>
        /\ OutputTouched =>
              /\ ~args.dry_run
              /\ pc \in {"stream", "finish"}
              /\ ValidationPassed
        /\ (halted /\ (args.dry_run
                       \/ (exit_code = 1 /\ pc \in {"args", "open_in", "validate"})))
              => (fs = fs0 /\ fp_out = NoPath)

\* a dry-run that passed every check and returned 0 with the file at the
\* output path still holding what it held before
C8_Witness ==
    /\ tool \in Splicers /\ halted /\ exit_code = 0 /\ args.dry_run
    /\ out_path = OtherPath /\ fs0[OtherPath].exists
    /\ fs[OtherPath] = OldOutput

\* C9: a run of a splicer, whatever --in and --out name, leaves the input
\* file holding what it held before the run
C9_InputNeverModified ==
    (tool \in Splicers /\ in_path # NoPath) => fs[in_path] = fs0[in_path]

\* C10: a run on an input file whose length is not a multiple of the record
\* size ends with exit code 1, whichever tool it is
C10_CorruptInputRejected ==
    (/\ halted
     /\ in_path # NoPath
     /\ fs0[in_path].exists
     /\ filesize(fs0[in_path]) % RecordSize # 0)
        => exit_code = 1

\* the number of records the streaming loop took from the forward stream
RecordsStreamed == IF tool = "overwrite" THEN idx ELSE in_idx

\* C11: a splicer that returns 0 has read all total_records records of the
\* forward stream and has written at least as many; a read that fails or comes
\* up short makes the run end with a non-zero exit code
C11_ShortReadIsFatal ==
    (tool \in Splicers /\ Completed(tool)) =>
        /\ RecordsStreamed = total_records
        /\ Len(output) >= total_records

\* the run was given an input that opens as a trace, and somewhere to write
InputOk ==
    /\ in_path # NoPath
    /\ fs0[in_path].exists /\ filesize(fs0[in_path]) % RecordSize = 0
    /\ (out_path # NoPath \/ dry_run)

\* insert's arguments are valid for the input, in exact integers
InsertArgsValid ==
    /\ 0 <= src_begin /\ src_begin < src_end /\ src_end <= N
    /\ 0 <= insert_at /\ insert_at <= N

\* what C12 says of a finished run that ended with exit code <rejected>
InsertAcceptance(rejected) ==
    (tool = "insert" /\ halted /\ InputOk) =>
        /\ InsertArgsValid => exit_code = 0
        /\ ~InsertArgsValid =>
              /\ exit_code \in rejected
              /\ fs = fs0
              /\ (0 <= src_begin /\ 0 <= src_end /\ src_begin >= src_end)
                    => (pc = "args" /\ fp_in = NoPath)

\* C12: insert returns 0 exactly when 0 <= src_begin < src_end <= N and
\* 0 <= insert_at <= N; in every other case it ends with exit code 1 and has
\* written nothing, an empty or inverted source range before the input is
\* opened
C12_InsertAcceptance == InsertAcceptance({1})

\* insert_at one past the end of the trace is rejected by the range check
C12_Witness ==
    /\ tool = "insert" /\ halted /\ InputOk
    /\ src_begin = 0 /\ src_end = N /\ insert_at = N + 1
    /\ exit_code = 1 /\ pc = "validate" /\ fs = fs0

\* the same on every build, a run killed at the overflowing sum of line 149
\* counted as rejected
InsertAcceptanceOrTrap == InsertAcceptance({1, 134})

\* the insertion point, the buffered block's length and its first source
\* record, for the two tools that insert one block
InsertPoint == IF tool = "insert" THEN insert_at ELSE b_at_a_insert_at
BlockLen == IF tool = "insert" THEN insert_len ELSE b_at_a_insert_len
BlockBegin == IF tool = "insert" THEN src_begin ELSE b_at_a_src_begin

\* the block has been written once if the stream has passed insert_at, and
\* not at all otherwise
C13_BlockState ==
    /\ Len(output) = out_idx
    /\ out_idx = in_idx + (IF inserted THEN BlockLen ELSE 0)
    /\ inserted <=> \/ in_idx > InsertPoint
                    \/ (halted /\ InsertPoint = total_records)
    /\ inserted =>
          SubSeq(output, InsertPoint + 1, InsertPoint + BlockLen)
              = SubSeq(input, BlockBegin + 1, BlockBegin + BlockLen)
    /\ halted => (exit_code = 0 /\ inserted /\ in_idx = total_records)

\* C13: in trace_insert_range and trace_insert_b_at_a, for an insert_at in
\* [0, total_records] (every insert_at the stream is reached with, unless a
\* ratio is a NaN), from the moment the
\* output is open, the block has been written once if the stream has passed
\* record insert_at (or has ended with insert_at = total_records) and not at
\* all otherwise: the output holds the records read so far plus at most one
\* copy of the block, the copy sits at insert_at, and a run that returns 0 has
\* written it, as the output's suffix when insert_at = total_records
C13_BlockWrittenOnce ==
    (/\ tool \in {"insert", "b_at_a"}
     /\ pc \in {"stream", "finish"}
     /\ out_path # in_path) =>
        /\ (tool = "insert" \/ RatiosAreNumbers) =>
              (0 <= InsertPoint /\ InsertPoint <= total_records)
        /\ (0 <= InsertPoint /\ InsertPoint <= total_records) =>
              C13_BlockState

\* an end-of-file insertion that returned 0
C13_Witness ==
    /\ tool \in {"insert", "b_at_a"} /\ Completed(tool)
    /\ InsertPoint = total_records /\ total_records >= 2
    /\ inserted /\ out_idx = total_records + BlockLen

\* overwrite's source range is valid for the input, in exact integers
OverwriteSrcValid == 0 <= src_begin /\ src_begin < src_end /\ src_end <= N

\* C14: an overwrite with a valid source range and a non-negative dst_begin
\* whose window [dst_begin, dst_begin + len) does not lie within the trace, in
\* exact integers, ends with exit code 1 and writes nothing
C14_OverwriteWindowChecked ==
    (/\ tool = "overwrite" /\ halted /\ InputOk
     /\ OverwriteSrcValid /\ 0 <= dst_begin
     /\ dst_begin + copy_len > N) =>
        (exit_code = 1 /\ fs = fs0)

\* the same with any non-zero exit status counted as a rejection: the window
\* check is passed through the wrapped sum
OverwriteWindowNeverAccepted ==
    (/\ tool = "overwrite" /\ halted /\ InputOk
     /\ OverwriteSrcValid /\ 0 <= dst_begin
     /\ dst_begin + copy_len > N) =>
        (exit_code # 0 /\ fs = fs0)

\* C15: a periodic run whose structure ends beyond the input, in exact
\* integers first_a_begin + iterations * (a_len + b_len) > N, ends with exit
\* code 1 and with every file as it was, with and without --dry-run
C15_PreflightRejects ==
    (tool = "all_iters" /\ halted /\ InputOk /\ ~StructureInBounds) =>
        (exit_code = 1 /\ fs = fs0)

\* the same with any non-zero exit status counted as a rejection: the
\* pre-flight check is passed through the wrapped product
PreflightNeverAccepts ==
    (tool = "all_iters" /\ halted /\ InputOk /\ ~StructureInBounds) =>
        (exit_code # 0 /\ fs = fs0)

\* floor(len * ratio) in exact integers, ratio a numerator over RatioDen
FloorRatio(len, ratio) == (len * ratio) \div RatioDen
MaxOf(x, y) == IF x >= y THEN x ELSE y

\* what the plain insert writes for a trace and accepted arguments
InsertResult(in, sb, se, at) ==
    SubSeq(in, 1, at) \o SubSeq(in, sb + 1, se) \o SubSeq(in, at + 1, Len(in))

\* the arguments of the plain insert that C16 names for a ratio-addressed run
EquivInsertAt == a_begin + FloorRatio(a_end - a_begin, a_pos)
EquivSrcEnd == b_begin + MaxOf(1, FloorRatio(b_end - b_begin, b_ratio))

\* the output is what the plain insert writes for these arguments, which it
\* accepts
WroteEquivInsert ==
    /\ 0 <= b_begin /\ b_begin < EquivSrcEnd /\ EquivSrcEnd <= N
    /\ 0 <= EquivInsertAt /\ EquivInsertAt <= N
    /\ output = InsertResult(input, b_begin, EquivSrcEnd, EquivInsertAt)
    /\ FloorRatio(b_end - b_begin, b_ratio) = 0 => Len(output) = N + 1

\* C16: a completed trace_insert_range wrote InsertResult of its arguments, and
\* a completed trace_insert_b_at_a whose ratios are numbers wrote what
\* trace_insert_range writes for
\* insert_at = a_begin + floor((a_end - a_begin) * a_pos), src_begin = b_begin,
\* src_end = b_begin + max(1, floor((b_end - b_begin) * b_ratio)), arguments
\* the plain insert accepts; one record is inserted when the floor is 0
C16_BAtAIsInsert ==
    /\ Completed("insert") =>
          output = InsertResult(input, src_begin, src_end, insert_at)
    /\ (Completed("b_at_a") /\ RatiosAreNumbers) => WroteEquivInsert

\* the same for the ratio-addressed runs whose products are exact in double
\* arithmetic
BAtAIsInsertExact ==
    /\ Completed("insert") =>
          output = InsertResult(input, src_begin, src_end, insert_at)
    /\ (Completed("b_at_a") /\ ProductsExact) => WroteEquivInsert

\* a ratio-addressed insert of a B fraction that rounds down to 0
BAtAIsInsertExact_Witness ==
    /\ Completed("b_at_a") /\ ProductsExact
    /\ FloorRatio(b_end - b_begin, b_ratio) = 0
    /\ a_begin < EquivInsertAt /\ EquivInsertAt < a_end
    /\ Len(output) = N + 1

\* a ratio-addressed insert whose B fraction rounds down to 0
C16_Witness ==
    /\ Completed("b_at_a") /\ RatiosAreNumbers
    /\ FloorRatio(b_end - b_begin, b_ratio) = 0
    /\ 0 < EquivInsertAt /\ EquivInsertAt < N
    /\ Len(output) = N + 1

\* trace_insert_b_at_a accepts these arguments for a trace of n records:
\* they can be given (each is an int64_t) and pass every check, in exact
\* integers
BAtAAccepts(ab, ae, bb, be, ap, br, n) ==
    /\ \A x \in {ab, ae, bb, be} : 0 <= x /\ InInt64(x)
    /\ ab < ae /\ bb < be
    /\ 0 <= ap /\ ap <= RatioDen
    /\ 0 < br /\ br <= RatioDen
    /\ ae <= n /\ be <= n
    /\ ab + FloorRatio(ae - ab, ap) <= n

\* what trace_insert_b_at_a writes for accepted arguments (C16)
BAtAResult(in, ab, ae, bb, be, ap, br) ==
    InsertResult(in, bb, bb + MaxOf(1, FloorRatio(be - bb, br)),
                 ab + FloorRatio(ae - ab, ap))

\* trace_insert_b_at_a returned as BAtAAccepts and BAtAResult say
BAtAAsInsert ==
    /\ exit_code = 0
          <=> BAtAAccepts(a_begin, a_end, b_begin, b_end, a_pos, b_ratio, N)
    /\ Completed("b_at_a") =>
          output = BAtAResult(input, a_begin, a_end, b_begin, b_end,
                              a_pos, b_ratio)

\* the ratio-addressed insert behaves as BAtAAccepts and BAtAResult say
BAtABehaviour ==
    (tool = "b_at_a" /\ halted /\ InputOk /\ RatiosAreNumbers) =>
        BAtAAsInsert

\* the same for the runs whose products are exact in double arithmetic
BAtABehaviourExact ==
    (tool = "b_at_a" /\ halted /\ InputOk /\ ProductsExact) => BAtAAsInsert

\* a periodic run with iterations = 1 and every = 1 behaves as the
\* ratio-addressed insert does for a_begin = first_a_begin,
\* a_end = first_a_begin + a_len, b_begin = a_end, b_end = a_end + b_len
PeriodicAsBAtA ==
    LET ab == first_a_begin
        ae == first_a_begin + a_len
        be == first_a_begin + a_len + b_len
    IN  /\ exit_code = 0 <=> BAtAAccepts(ab, ae, ae, be, a_pos, b_ratio, N)
        /\ Completed("all_iters") =>
              output = BAtAResult(input, ab, ae, ae, be, a_pos, b_ratio)

\* C17: with iterations = 1 and every = 1 the periodic splicer returns 0 for
\* exactly the inputs for which trace_insert_b_at_a returns 0 with
\* a_begin = first_a_begin, a_end = first_a_begin + a_len, b_begin = a_end,
\* b_end = a_end + b_len and the same ratios, and writes the same output
C17_PeriodicGeneralizes ==
    /\ BAtABehaviour
    /\ (tool = "all_iters" /\ halted /\ InputOk /\ RatiosAreNumbers
        /\ iterations = 1 /\ every = 1) => PeriodicAsBAtA

\* the same for the structures whose end first_a_begin + a_len + b_len is an
\* int64_t, so that the corresponding b_end can be given, and whose products
\* are exact
PeriodicGeneralizesRepresentable ==
    /\ BAtABehaviourExact
    /\ (tool = "all_iters" /\ halted /\ InputOk /\ ProductsExact
        /\ iterations = 1 /\ every = 1
        /\ InInt64(first_a_begin + a_len + b_len)) => PeriodicAsBAtA

\* a completed single-iteration periodic run that inserted inside A
PeriodicGeneralizesRepresentable_Witness ==
    /\ Completed("all_iters") /\ iterations = 1 /\ every = 1
    /\ RatiosAreNumbers /\ a_len = 2 /\ a_pos > 0 /\ Len(output) > N

\* the two ratio-driven tools
RatioTools == {"b_at_a", "all_iters"}

\* a_pos is not a number of [0, 1], b_ratio not a number of (0, 1]
APosOutside == isnan(a_pos) \/ a_pos < 0 \/ a_pos > RatioDen
BRatioOutside == isnan(b_ratio) \/ b_ratio <= 0 \/ b_ratio > RatioDen

\* a required flag was not given: its variable still holds its initial value
RequiredFlagMissing ==
    \/ in_path = NoPath
    \/ (out_path = NoPath /\ ~dry_run)
    \/ a_pos = -RatioDen \/ b_ratio = -RatioDen
    \/ (tool = "b_at_a" /\ -1 \in {a_begin, a_end, b_begin, b_end})
    \/ (tool = "all_iters"
        /\ -1 \in {first_a_begin, a_len, b_len, iterations})

BadRatioArgs ==
    \/ APosOutside \/ BRatioOutside
    \/ RequiredFlagMissing
    \/ (tool = "all_iters" /\ every < 0)

\* the run never left the argument checks, opened nothing, created nothing,
\* and returned 1 if it has ended
RejectedAtArgs ==
    /\ pc = "args" /\ fp_in = NoPath /\ fp_out = NoPath /\ fs = fs0
    /\ halted => exit_code = 1

\* C18: a run of trace_insert_b_at_a or trace_insert_all_iters with an a_pos
\* outside [0, 1], a b_ratio outside (0, 1], a missing required flag or
\* (periodic) every < 0 returns 1 from the argument checks: the input is
\* never opened and no file is created
C18_BadRatioArgsRejected ==
    (tool \in RatioTools /\ BadRatioArgs) => RejectedAtArgs

\* the same for the ratios that are numbers
BadNumericRatioArgsRejected ==
    (tool \in RatioTools /\ BadRatioArgs /\ RatiosAreNumbers) => RejectedAtArgs

\* b_ratio = 0 was rejected by the argument checks
BadNumericRatioArgsRejected_Witness ==
    /\ tool \in RatioTools /\ halted /\ exit_code = 1 /\ pc = "args"
    /\ b_ratio = 0 /\ ~RequiredFlagMissing /\ fs0[in_path].exists

\* address a lies in the window [b_base, b_base + b_size), in exact integers
InWindow(a) == b_base <= a /\ a < b_base + b_size

\* the Hits of record rec, the i-th (0-based) of the trace: its memory slots,
\* loads before stores, each in ascending slot order, that hold a non-zero
\* address of the window
HitsOfRecord(rec, i) ==
    LET hit(k, a) == [idx |-> i, kind |-> k, ip |-> rec.ip, addr |-> a,
                      offset |-> a - b_base]
        loads == [k \in 1..NUM_INSTR_SOURCES |->
                     hit("load", rec.source_memory[k])]
        stores == [k \in 1..NUM_INSTR_DESTINATIONS |->
                      hit("store", rec.destination_memory[k])]
        wanted(h) == h.addr # 0 /\ InWindow(h.addr)
    IN  SelectSeq(loads \o stores, wanted)

\* the Hits of records i .. n - 1 of the trace, in record order
RECURSIVE HitsOfRecords(_, _)
HitsOfRecords(i, n) ==
    IF i >= n THEN <<>>
    ELSE HitsOfRecord(input[i + 1], i) \o HitsOfRecords(i + 1, n)

\* without a hit limit the scanner has emitted the Hits of the records read so
\* far, and each offset lies in the window
ScannerEmitsWindowHits ==
    /\ hits = HitsOfRecords(0, idx)
    /\ halted => idx = N
    /\ \A k \in 1..Len(hits) : 0 <= hits[k].offset /\ hits[k].offset < b_size

\* C19: scanning a trace with no hit limit emits exactly one Hit for each
\* (record, slot) whose address is non-zero and lies in
\* [b_base, b_base + b_size), in ascending record index and, within a record,
\* loads (ascending slot) before stores, each with the record's index and
\* offset = address - b_base, 0 <= offset < b_size
C19_ScannerHits ==
    (tool = "find" /\ max_hits = 0 /\ pc \in {"stream", "done"}) =>
        ScannerEmitsWindowHits

\* the same for the windows whose end b_base + b_size is a uint64_t
ScannerHitsNoWrap ==
    (tool = "find" /\ max_hits = 0 /\ pc \in {"stream", "done"}
     /\ b_base + b_size < 2^IntBits) => ScannerEmitsWindowHits

\* a finished scan that reported loads and stores of several records
ScannerHitsNoWrap_Witness ==
    /\ tool = "find" /\ max_hits = 0 /\ halted /\ exit_code = 0
    /\ b_base + b_size < 2^IntBits /\ b_base > 0
    /\ N >= 3 /\ Len(hits) >= 3
    /\ \E j, k \in 1..Len(hits) :
          /\ hits[j].kind = "load" /\ hits[k].kind = "store"
          /\ hits[j].offset > 0

\* the values of the memory slots of record i (0-based) that a Hit of kind k
\* can report
SlotValues(i, k) ==
    LET rec == input[i + 1]
    IN  IF k = "load"
        THEN {rec.source_memory[j] : j \in 1..NUM_INSTR_SOURCES}
        ELSE {rec.destination_memory[j] : j \in 1..NUM_INSTR_DESTINATIONS}

\* C20: every Hit the address scanner emits reports the value of a memory slot
\* of its record, and that value is never the sentinel 0, whatever the window
\* and the hit limit, also when b_base = 0 and the window contains 0
C20_ZeroNeverReported ==
    tool = "find" =>
        \A k \in 1..Len(hits) :
            /\ hits[k].addr \in SlotValues(hits[k].idx, hits[k].kind)
            /\ hits[k].addr # 0

\* a finished scan of a window that starts at 0 reported hits, all non-zero,
\* from records that hold zero slots
C20_Witness ==
    /\ tool = "find" /\ halted /\ exit_code = 0
    /\ b_base = 0 /\ b_size > 1 /\ N >= 2 /\ Len(hits) >= 2
    /\ \A i \in 0..(N - 1) : 0 \in SlotValues(i, "load")

\* the Hits the scanner's membership test selects in record rec, the i-th
\* (0-based) of the trace
MatchesOfRecord(rec, i) ==
    LET hit(k, a) == [idx |-> i, kind |-> k, ip |-> rec.ip, addr |-> a,
                      offset |-> UInt64(a - b_base)]
        loads == [k \in 1..NUM_INSTR_SOURCES |->
                     hit("load", rec.source_memory[k])]
        stores == [k \in 1..NUM_INSTR_DESTINATIONS |->
                      hit("store", rec.destination_memory[k])]
        matches(h) == in_b_range(h.addr)
    IN  SelectSeq(loads \o stores, matches)

\* the sequence emitted with no limit for records i .. n - 1
RECURSIVE UnlimitedHits(_, _)
UnlimitedHits(i, n) ==
    IF i >= n THEN <<>>
    ELSE MatchesOfRecord(input[i + 1], i) \o UnlimitedHits(i + 1, n)

MinOf(x, y) == IF x <= y THEN x ELSE y

\* C21: with max_hits = M > 0 the scanner emits the first min(M, matches)
\* hits of the sequence it emits with no limit, never more than M, and stops
\* at the M-th hit without finishing the record; with max_hits = 0 it emits
\* every match
C21_HitLimit ==
    (tool = "find" /\ pc \in {"stream", "done"}) =>
        LET all == UnlimitedHits(0, N)
        IN  /\ hit_count = Len(hits)
            /\ max_hits = 0 =>
                  /\ hits = UnlimitedHits(0, idx)
                  /\ halted => hits = all
            /\ max_hits > 0 =>
                  /\ Len(hits) <= max_hits
                  /\ Len(hits) <= Len(all)
                  /\ hits = SubSeq(all, 1, Len(hits))
                  /\ halted => Len(hits) = MinOf(max_hits, Len(all))
                  /\ Len(hits) = max_hits =>
                        /\ pc = "done"
                        /\ idx = hits[max_hits].idx
                        /\ total_records = idx + 1
                  /\ Len(hits) < max_hits =>
                        hits = UnlimitedHits(0, idx)

\* a scan that stopped at its second hit in the middle of a record, with
\* matches left
C21_Witness ==
    /\ tool = "find" /\ halted /\ exit_code = 0
    /\ max_hits = 2 /\ Len(hits) = 2
    /\ LET all == UnlimitedHits(0, N)
       IN  /\ Len(all) > 3
           /\ all[3].idx = hits[2].idx

\* what the overwrite rules define for a trace and valid arguments: the
\* window [db, db + (se - sb)) holds the original records [sb, se)
OverwriteResult(in, sb, se, db) ==
    [i \in 1..Len(in) |->
        IF db <= i - 1 /\ i - 1 < db + (se - sb)
        THEN in[sb + (i - 1 - db) + 1]
        ELSE in[i]]

\* all bounds of an overwrite are valid
OverwriteArgsValid ==
    OverwriteSrcValid /\ 0 <= dst_begin /\ dst_begin + copy_len <= N

\* the ranges of the run intersect
RangesOverlap ==
    IF tool = "overwrite"
    THEN src_begin < dst_begin + copy_len /\ src_end > dst_begin
    ELSE src_begin <= insert_at /\ insert_at < src_end

\* C22: an overwrite whose source and destination ranges intersect, or an
\* insert whose insert_at lies inside the source range, with valid bounds and
\* a readable input, prints the advisory, returns 0 and (when it writes)
\* writes the output the rules define without regard to the overlap; the
\* advisory is printed in no other case, and never with a rejection
C22_OverlapAdvisory ==
    /\ (tool = "overwrite" /\ halted /\ InputOk /\ OverwriteArgsValid
        /\ RangesOverlap) =>
          /\ exit_code = 0 /\ warnings = {"overlap"}
          /\ Completed("overwrite") =>
                output = OverwriteResult(input, src_begin, src_end, dst_begin)
    /\ (tool = "insert" /\ halted /\ InputOk /\ InsertArgsValid
        /\ RangesOverlap) =>
          /\ exit_code = 0 /\ warnings = {"overlap"}
          /\ Completed("insert") =>
                output = InsertResult(input, src_begin, src_end, insert_at)
    /\ (tool \in {"insert", "overwrite"} /\ "overlap" \in warnings) =>
          /\ RangesOverlap
          /\ halted => exit_code = 0

\* a completed overwrite and a completed insert, each with the advisory
\* printed, whose output differs from the input
C22_Witness ==
    /\ tool \in {"insert", "overwrite"} /\ Completed(tool)
    /\ warnings = {"overlap"} /\ RangesOverlap
    /\ src_begin # (IF tool = "overwrite" THEN dst_begin ELSE insert_at)
    /\ output # input /\ N >= 3

\* the first active iteration from i on, iterations when there is none
ActiveFrom(i) ==
    IF every = 0 THEN iterations
    ELSE LET j == ((i + every - 1) \div every) * every
         IN  IF j < iterations THEN j ELSE iterations

\* what the forward pass has written when records j .. n - 1 are streamed
\* with iteration it the next one to insert: each record once, in order, the
\* block of it before the record at its insertion point
RECURSIVE ForwardLayout(_, _, _)
ForwardLayout(j, n, it) ==
    IF j >= n THEN <<>>
    ELSE IF it < iterations /\ InsertAt(it) = j
         THEN SubSeq(input, BBegin(it) + 1, BBegin(it) + InsertedLen)
              \o <<input[j + 1]>> \o ForwardLayout(j + 1, n, ActiveFrom(it + 1))
         ELSE <<input[j + 1]>> \o ForwardLayout(j + 1, n, it)

\* the iteration whose insertion is pending after in_idx forward records
RECURSIVE PendingAfter(_, _)
PendingAfter(j, it) ==
    IF j >= in_idx \/ it >= iterations THEN it
    ELSE IF InsertAt(it) = j THEN PendingAfter(j + 1, ActiveFrom(it + 1))
         ELSE PendingAfter(j + 1, it)

\* the forward pass of the periodic splicer, distinct input and output paths
ForwardPass ==
    tool = "all_iters" /\ pc \in {"stream", "finish"} /\ out_path # in_path

\* no insertion point is passed over, the forward position is the record after
\* the last one processed, every record processed so far was written once
\* and in order, and a run that returns 0 has made total_records forward
\* reads and has no insertion pending
LookaheadAndRestore ==
    LET pending == PendingAfter(0, ActiveFrom(0))
    IN  /\ next_insert_at = -1 \/ next_insert_at >= in_idx
        /\ next_insert_at = -1 <=> pending >= iterations
        /\ pending < iterations => next_insert_at = InsertAt(pending)
        /\ current_pos = in_idx
        /\ Len(output) = out_idx
        /\ output = ForwardLayout(0, in_idx, ActiveFrom(0))
        /\ (halted /\ exit_code = 0) =>
              /\ in_idx = total_records /\ total_records = N
              /\ next_insert_at = -1

\* C23: during the forward pass of the periodic splicer the pending insertion
\* point is absent or not behind the record being processed, the forward
\* position is restored after each B chunk, every input record is streamed
\* and written once, and the loop ends after total_records forward reads
\* with no insertion pending
C23_LookaheadAndRestore ==
    (ForwardPass /\ RatiosAreNumbers) => LookaheadAndRestore

\* the same for the structures that really lie inside the input and whose
\* products are exact
LookaheadAndRestoreInBounds ==
    (ForwardPass /\ ProductsExact /\ StructureInBounds)
        => LookaheadAndRestore

\* a finished run that made two insertions, skipping an iteration in between
LookaheadAndRestoreInBounds_Witness ==
    /\ Completed("all_iters") /\ RatiosAreNumbers /\ StructureInBounds
    /\ every = 2 /\ iterations = 3 /\ insertions_done = 2
    /\ Len(output) > N

\* the iteration of the last insertion made
LastInserted == (insertions_done - 1) * every

\* the B buffer holds nothing before the first insertion and afterwards the
\* payload of the last insertion made, at most b_len records; every payload
\* read so far stands in the output in full, the last one before the record
\* at its insertion point
BufferBound ==
    /\ 1 <= b_insert_len /\ b_insert_len <= b_len
    /\ Len(buf) <= b_insert_len
    /\ insertions_done = 0 => buf = <<>> \/ halted
    /\ (insertions_done > 0 /\ (~halted \/ exit_code = 0)) =>
          LET since == in_idx - InsertAt(LastInserted)
              from == Len(output) - since - b_insert_len
          IN  /\ buf = SubSeq(input, BBegin(LastInserted) + 1,
                              BBegin(LastInserted) + b_insert_len)
              /\ Len(output) = in_idx + insertions_done * b_insert_len
              /\ since >= 1 /\ from >= 0
              /\ SubSeq(output, from + 1, from + b_insert_len) = buf

BufferBoundExact ==
    (ForwardPass /\ ProductsExact) => BufferBound

\* a second payload has replaced the first in the buffer
BufferBoundExact_Witness ==
    /\ ForwardPass /\ ProductsExact
    /\ insertions_done = 2 /\ Len(buf) = 2 /\ b_len = 2 /\ ~halted
    /\ in_idx < N

\* the indices the periodic splicer computes for iteration i are valid: the
\* insertion point lies in [a_begin_i, b_begin_i], the source range is not
\* empty and lies in the B segment of the iteration, both lie inside the
\* input, and the insertion point is beyond that of iteration i - 1
IndexValid(i) ==
    /\ a_begin_i(i) <= insert_at_i(i) /\ insert_at_i(i) <= b_begin_i(i)
    /\ 1 <= b_insert_len /\ b_insert_len <= b_len
    /\ 0 <= insert_at_i(i) /\ insert_at_i(i) < total_records
    /\ 0 <= b_begin_i(i) /\ b_begin_i(i) + b_insert_len <= total_records
    /\ i > 0 => insert_at_i(i - 1) < insert_at_i(i)

\* the run ended on the "Expected to read ... B records" error
ShortReadOnB ==
    /\ tool = "all_iters" /\ halted /\ exit_code = 1 /\ pc = "stream"
    /\ Len(buf) # b_insert_len

\* pre-flight validation of the periodic splicer has passed
PreflightPassed ==
    /\ tool = "all_iters" /\ ValidationPassed
    /\ pc \in {"dry_run", "open_out", "stream", "finish"}

IndexValidity ==
    /\ \A i \in 0..(iterations - 1) : IndexValid(i)
    /\ out_path # in_path => ~ShortReadOnB

\* C25: once the pre-flight validation of the periodic splicer has passed,
\* every iteration's insertion point and source range are valid indices of
\* the input, the insertion points increase strictly, and the short read of
\* a B source cannot happen on a file that does not change
C25_IndexValidity ==
    (PreflightPassed /\ RatiosAreNumbers) => IndexValidity

\* the same for the structures that really lie inside the input and whose
\* products are exact
IndexValidityInBounds ==
    (PreflightPassed /\ ProductsExact /\ StructureInBounds) => IndexValidity

\* three iterations passed validation and the run inserted for each
IndexValidityInBounds_Witness ==
    /\ PreflightPassed /\ ProductsExact /\ StructureInBounds
    /\ iterations = 3 /\ every = 1 /\ insertions_done = 3
    /\ halted /\ exit_code = 0

\* every check of the arguments, of the input file and of the ranges passes,
\* as the tool computes it; --dry-run and --out do not enter (a normal run
\* is given its --out)
AllChecksPass ==
    /\ in_path # NoPath
    /\ fs0[in_path].exists /\ filesize(fs0[in_path]) % RecordSize = 0
    /\ total_records = filesize(fs0[in_path]) \div RecordSize
    /\ CASE tool = "insert" ->
                ~insert_args_rejected /\ ~insert_ranges_rejected
         [] tool = "overwrite" ->
                ~overwrite_args_rejected /\ ~overwrite_ranges_rejected
         [] tool = "b_at_a" ->
                ~b_at_a_args_rejected /\ ~b_at_a_ranges_rejected
         [] tool = "all_iters" ->
                ~all_iters_args_rejected /\ ~all_iters_ranges_rejected

\* a normal run has created its output file
WritePhaseReached == ~dry_run /\ pc \in {"stream", "finish"}

\* a dry run returns 0 exactly when every check passes and 1 otherwise; a
\* normal run reaches the write phase exactly when every check passes and
\* returns 1 without writing otherwise
DryRunAgrees ==
    /\ dry_run =>
          /\ exit_code = 0 <=> AllChecksPass
          /\ exit_code = 1 <=> ~AllChecksPass
    /\ ~dry_run =>
          /\ WritePhaseReached <=> AllChecksPass
          /\ ~WritePhaseReached => exit_code = 1 /\ ~OutputTouched

\* C26: for each splicer, the dry run returns 0 for exactly the arguments and
\* input for which the normal run (given an --out) passes every check and
\* reaches the write phase, and both return 1 on the same inputs: each is
\* decided by the same checks
C26_DryRunAgrees ==
    (tool \in Splicers /\ halted /\ (dry_run \/ out_path # NoPath))
        => DryRunAgrees

\* the same for the runs whose products are exact in double arithmetic and
\* in which no signed overflow trapped
DryRunAgreesExact ==
    (tool \in Splicers /\ halted /\ (dry_run \/ out_path # NoPath)
     /\ exit_code # 134 /\ (tool \in RatioTools => ProductsExact))
        => DryRunAgrees

\* a dry run that returned 0 and named its output, which was not created
DryRunAgreesExact_Witness ==
    /\ tool = "all_iters" /\ halted /\ dry_run /\ exit_code = 0
    /\ RatiosAreNumbers /\ out_path # NoPath /\ out_path # in_path
    /\ ~fs[out_path].exists /\ N >= 3

\* the run ended on the "insert_at exceeds total records" error: both
\* intervals had passed their checks
InsertAtErrorReached ==
    /\ tool = "b_at_a" /\ halted /\ exit_code = 1 /\ pc = "validate"
    /\ a_end <= total_records /\ b_end <= total_records

\* the computed insertion point lies in [a_begin, a_end], the computed length
\* in [1, b_end - b_begin]; neither the advisory nor the insert_at error
\* was reached
RatioBounds ==
    /\ a_begin <= b_at_a_insert_at /\ b_at_a_insert_at <= a_end
    /\ 1 <= b_at_a_insert_len /\ b_at_a_insert_len <= b_end - b_begin
    /\ b_begin <= b_at_a_src_begin /\ b_at_a_src_end <= b_end
    /\ "outside_a" \notin warnings
    /\ ~InsertAtErrorReached

\* the ratio-addressed insert accepted its arguments: a_pos is a number of
\* [0, 1], b_ratio a number of (0, 1], A and B are not empty
RatioArgsAccepted ==
    /\ tool = "b_at_a" /\ pc # "args" /\ ~b_at_a_args_rejected
    /\ RatiosAreNumbers

\* C27: for accepted ratios and non-empty intervals the ratio-addressed
\* insert computes insert_at in [a_begin, a_end] and inserted_len in
\* [1, b_end - b_begin], so that the source range lies in the B interval and
\* neither the "outside A range" warning nor the "insert_at exceeds total
\* records" error is reached
C27_RatioBounds ==
    RatioArgsAccepted => RatioBounds

\* the same for the runs whose products are exact in double arithmetic
RatioBoundsExact ==
    (RatioArgsAccepted /\ ProductsExact) => RatioBounds

\* a finished run that inserted the whole of B at the end of A
RatioBoundsExact_Witness ==
    /\ RatioArgsAccepted /\ ProductsExact /\ Completed("b_at_a")
    /\ b_at_a_insert_at = a_end /\ a_end - a_begin >= 2
    /\ b_at_a_insert_len = b_end - b_begin /\ b_end - b_begin >= 2

\* the input is a trace of 0 records
EmptyInput ==
    in_path # NoPath /\ fs0[in_path].exists /\ filesize(fs0[in_path]) = 0

\* the run was refused: it returned 1 if it has returned, and no file was
\* created or changed
Refused == (halted => exit_code = 1) /\ ~OutputTouched

\* C28: on an input of 0 records every run of a splicer, normal or dry,
\* returns 1 and creates no output file
C28_EmptyInputRejected ==
    (tool \in Splicers /\ EmptyInput) => Refused

\* the end of the periodic structure, and what it is computed from, are
\* int64_t values
StructureRepresentable ==
    /\ InInt64(a_len + b_len)
    /\ InInt64(iterations * (a_len + b_len))
    /\ InInt64(first_a_begin + iterations * (a_len + b_len))

\* the same for the periodic runs whose structure is representable, a trap
\* on signed overflow counted as a refusal
EmptyInputRejectedRepresentable ==
    (tool \in Splicers /\ EmptyInput
     /\ (tool = "all_iters" => StructureRepresentable)) =>
        /\ halted => exit_code \in {1, 134}
        /\ ~OutputTouched

\* a dry run of the periodic splicer on an empty trace that was refused by
\* the pre-flight check
EmptyInputRejectedRepresentable_Witness ==
    /\ tool = "all_iters" /\ EmptyInput /\ StructureRepresentable
    /\ halted /\ exit_code = 1 /\ pc = "validate" /\ dry_run

\* the end of the window, in exact integers, is not a uint64_t
WindowWraps == b_base + b_size >= 2^IntBits

InDstWindow(j) == dst_begin <= j /\ j < dst_begin + copy_len

\* src_idx counts the window records emitted so far; it is a valid index of
\* the copy_len buffered records whenever the buffer is read and copy_len
\* when a run on an unchanged input ends; the output so far holds buffered
\* record k at window position k and input records elsewhere
SourceIndex ==
    /\ Len(buf) = copy_len
    /\ src_idx = Cardinality({j \in 0..(idx - 1) : InDstWindow(j)})
    /\ 0 <= src_idx /\ src_idx <= copy_len
    /\ (~halted /\ idx < Len(InData) /\ in_dst_range) => src_idx < copy_len
    /\ out_path # in_path =>
          /\ Len(output) = idx
          /\ \A j \in 0..(idx - 1) :
                output[j + 1] = IF InDstWindow(j) THEN buf[j - dst_begin + 1]
                                ELSE input[j + 1]
          /\ (halted /\ exit_code = 0) =>
                idx = total_records /\ src_idx = copy_len

\* C30: in the streaming loop of trace_overwrite_range src_idx is the number
\* of destination-window records emitted, 0 <= src_idx < copy_len holds at
\* every read of the buffer, src_idx = copy_len when the loop ends on an
\* unchanged file, and every buffered record is emitted exactly once
C30_SourceIndex ==
    (tool = "overwrite" /\ pc \in {"stream", "finish"}) => SourceIndex

\* the same for the runs whose destination window really lies inside the
\* input
SourceIndexInBounds ==
    (tool = "overwrite" /\ pc \in {"stream", "finish"}
     /\ dst_begin + copy_len <= N) => SourceIndex

\* a finished run that emitted three buffered records into the middle of
\* the trace
SourceIndexInBounds_Witness ==
    /\ Completed("overwrite") /\ dst_begin + copy_len < N /\ dst_begin > 0
    /\ copy_len = 3 /\ src_idx = 3 /\ src_begin # dst_begin

=============================================================================
